---- MODULE Spec2Model ----
(***************************************************************************)
(* Model of the chat backend: the send-message orchestrator (blocking and  *)
(* streaming), its router, the read path with retry on disconnect, the     *)
(* agent runtime and the tool adapters.                                    *)
(***************************************************************************)
EXTENDS Integers, Sequences, FiniteSets, TLC

(***************************************************************************)
(* Python values.  Optional[T] is a sequence of length 0 (None) or 1.      *)
(***************************************************************************)
None == <<>>
Some(x) == <<x>>

(***************************************************************************)
(* Python str operations, computed on TLA+ strings.                        *)
(***************************************************************************)
IsSpace(c) == c \in {" ", "\t", "\n"}

RECURSIVE lstrip(_)
lstrip(s) ==
    IF s = "" THEN ""
    ELSE IF IsSpace(SubSeq(s, 1, 1)) THEN lstrip(SubSeq(s, 2, Len(s)))
    ELSE s

RECURSIVE rstrip(_)
rstrip(s) ==
    IF s = "" THEN ""
    ELSE IF IsSpace(SubSeq(s, Len(s), Len(s))) THEN rstrip(SubSeq(s, 1, Len(s) - 1))
    ELSE s

\* str.strip()
strip(s) == rstrip(lstrip(s))

\* "".join(parts)
RECURSIVE join(_)
join(parts) == IF parts = <<>> THEN "" ELSE Head(parts) \o join(Tail(parts))

\* s * n
RECURSIVE Rep(_, _)
Rep(s, n) ==
    IF n <= 0 THEN ""
    ELSE LET half == Rep(s, n \div 2)
         IN half \o half \o (IF n % 2 = 1 THEN s ELSE "")

\* s[:n]
Prefix(s, n) == SubSeq(s, 1, IF Len(s) < n THEN Len(s) ELSE n)

\* sub in s
RECURSIVE Contains(_, _)
Contains(s, sub) ==
    IF Len(sub) > Len(s) THEN FALSE
    ELSE IF SubSeq(s, 1, Len(sub)) = sub THEN TRUE
    ELSE Contains(SubSeq(s, 2, Len(s)), sub)

UpperLetters == "ABCDEFGHIJKLMNOPQRSTUVWXYZ"
LowerLetters == "abcdefghijklmnopqrstuvwxyz"

LowerChar(c) ==
    IF \E i \in 1..26 : SubSeq(UpperLetters, i, i) = c
    THEN LET i == CHOOSE j \in 1..26 : SubSeq(UpperLetters, j, j) = c
         IN SubSeq(LowerLetters, i, i)
    ELSE c

\* str.lower()
RECURSIVE lower(_)
lower(s) == IF s = "" THEN "" ELSE LowerChar(SubSeq(s, 1, 1)) \o lower(SubSeq(s, 2, Len(s)))

UpperChar(c) ==
    IF \E i \in 1..26 : SubSeq(LowerLetters, i, i) = c
    THEN LET i == CHOOSE j \in 1..26 : SubSeq(LowerLetters, j, j) = c
         IN SubSeq(UpperLetters, i, i)
    ELSE c

\* str.upper()
RECURSIVE upper(_)
upper(s) == IF s = "" THEN "" ELSE UpperChar(SubSeq(s, 1, 1)) \o upper(SubSeq(s, 2, Len(s)))

\* str.isalpha() on ASCII text
isalpha(s) ==
    /\ s # ""
    /\ \A i \in 1..Len(s) : \E j \in 1..26 :
          SubSeq(s, i, i) \in {SubSeq(UpperLetters, j, j), SubSeq(LowerLetters, j, j)}

\* str.replace(a, b) for single characters
RECURSIVE replace(_, _, _)
replace(s, a, b) ==
    IF s = "" THEN ""
    ELSE (IF SubSeq(s, 1, 1) = a THEN b ELSE SubSeq(s, 1, 1)) \o replace(SubSeq(s, 2, Len(s)), a, b)

\* str.split(): the words between runs of whitespace; cur is the word so far
RECURSIVE SplitFrom(_, _)
SplitFrom(s, cur) ==
    IF s = "" THEN (IF cur = "" THEN <<>> ELSE <<cur>>)
    ELSE IF IsSpace(SubSeq(s, 1, 1))
    THEN (IF cur = "" THEN <<>> ELSE <<cur>>) \o SplitFrom(SubSeq(s, 2, Len(s)), "")
    ELSE SplitFrom(SubSeq(s, 2, Len(s)), cur \o SubSeq(s, 1, 1))

split(s) == SplitFrom(s, "")

\* str.rstrip("/")
RECURSIVE rstrip_slash(_)
rstrip_slash(s) ==
    IF s = "" THEN ""
    ELSE IF SubSeq(s, Len(s), Len(s)) = "/" THEN rstrip_slash(SubSeq(s, 1, Len(s) - 1))
    ELSE s

(***************************************************************************)
(* State.                                                                  *)
(***************************************************************************)
VARIABLES
    conversations,   \* table "conversations": row id = index; [user_id, title]
    messages,        \* table "messages" in timestamp order: row id = index
    req,             \* one record per request in flight or finished
    settings,        \* app.core.settings: [tavily_api_key, mcp_url]
    agent_executor,  \* _agent_executor singleton: None or Some(binding)
    streaming_agent_executor, \* _streaming_agent_executor singleton
    retry,           \* one call of _with_retry_on_disconnect: its input and result
    checks,          \* what the availability checks have answered so far
    tavily,          \* one call of _tavily_invoke: its input and result
    trends,          \* one call of _google_trends_invoke: its input and result
    _mcp_session_cache, \* the session ids kept per endpoint: a set of [url, session_id]
    request,         \* the HTTP request in the authentication middleware and what became of it
    turns,           \* send turns running side by side, as far as the conversation row goes
    title_log,       \* the conversations whose title a turn has written, in order
    runtime, \* one run of stream_agent_async: the engine events and what was yielded
    threads, \* callers of get_agent / get_streaming_agent, each with its position and what it got
    agent_ids, \* id() of the object each singleton holds, 0 for None
    tasks, \* trends tool calls running side by side, each with its position and session id
    _mcp_session_lock, \* the task that holds _mcp_session_lock, if any
    sends  \* send turns on one conversation running side by side

storeVars == <<conversations, messages>>
agentVars == <<settings, agent_executor, streaming_agent_executor>>
auxVars == <<retry, checks, tavily, trends, _mcp_session_cache, request, turns, title_log, runtime, threads, agent_ids, tasks, _mcp_session_lock, sends>>
vars == <<conversations, messages, req, settings, agent_executor, streaming_agent_executor,
          retry, checks, tavily, trends, _mcp_session_cache, request, turns, title_log, runtime, threads, agent_ids, tasks, _mcp_session_lock, sends>>

(***************************************************************************)
(* Bounds and input sets.                                                  *)
(***************************************************************************)
\* engine events consumed by one streaming turn
MaxEvents == 2

Reqs == {1}
Users == {"u1", "u2"}
Tokens == {"", "jwt"}

\* title = content[:200] + ("..." if len(content) > 200 else "")
TitleMaxLen == 200

\* DEFAULT_AGENT_HISTORY_LIMIT
DEFAULT_AGENT_HISTORY_LIMIT == 20

\* message texts a caller sends (before trimming)
Contents == {"  ", " Hello ", Rep("x", TitleMaxLen), "\n" \o Rep("y", TitleMaxLen + 1) \o " "}

\* binding configurations the chat specification starts from
ChatSettings ==
    { [tavily_api_key |-> "", mcp_url |-> "", langchain_agents |-> TRUE],
      [tavily_api_key |-> "tvly-key", mcp_url |-> "http://mcp:8080", langchain_agents |-> TRUE] }

(***************************************************************************)
(* Storage: the two tables and the repository reads.                       *)
(***************************************************************************)
ConvRow(cid) ==
    [id |-> cid, user_id |-> conversations[cid].user_id, title |-> conversations[cid].title]

\* variant of Conversation.get_by_id without the user_id filter
Conversation_get_by_id_any_user(conversation_id, user_id) ==
    IF conversation_id \in DOMAIN conversations
    THEN Some(ConvRow(conversation_id))
    ELSE None

\* Conversation.get_by_id: .eq("id", ...).eq("user_id", ...)
Conversation_get_by_id(conversation_id, user_id) ==
    IF conversation_id \in DOMAIN conversations
       /\ conversations[conversation_id].user_id = user_id
    THEN Some(ConvRow(conversation_id))
    ELSE None

\* s[offset : offset + limit]
Page(s, limit, offset) ==
    SubSeq(s, offset + 1, IF Len(s) < offset + limit THEN Len(s) ELSE offset + limit)

MessageMatches(m, conversation_id, user_id) ==
    /\ m.conversation_id = conversation_id
    /\ conversation_id \in DOMAIN conversations
    /\ conversations[conversation_id].user_id = user_id

\* variant of Message.get_by_conversation_id without the two filters
Message_get_by_conversation_id_unfiltered(conversation_id, user_id, limit, offset) ==
    Page(messages, limit, offset)

\* Message.get_by_conversation_id: inner join on the owner, oldest first,
\* then limit and offset
Message_get_by_conversation_id(conversation_id, user_id, limit, offset) ==
    Page(SelectSeq(messages, LAMBDA m : MessageMatches(m, conversation_id, user_id)),
         limit, offset)

\* Message.get_conversation_history_for_agent
get_conversation_history_for_agent(conversation_id, user_id, max_messages) ==
    LET rows == Message_get_by_conversation_id(conversation_id, user_id, max_messages, 0)
    IN [i \in 1..Len(rows) |-> [role |-> rows[i].role, content |-> rows[i].content]]

\* the row Message.create inserts
NewMessage(conversation_id, user_id, role, content, metadata) ==
    [id |-> Len(messages) + 1, conversation_id |-> conversation_id, user_id |-> user_id,
     role |-> role, content |-> content, metadata |-> metadata]

\* outcomes of one storage call: the row comes back, no row comes back, the
\* client raises (connection or API error)
InsertOutcomes == {"ok", "empty", "raise"}
SelectOutcomes == {"ok", "raise"}

(***************************************************************************)
(* Read retry: _is_connection_error and _with_retry_on_disconnect.         *)
(***************************************************************************)
Exc(module, name, bases, message) ==
    [module |-> module, name |-> name, bases |-> bases, message |-> message]

\* exceptions a storage call raises; bases are the classes isinstance accepts
HttpxRemoteProtocolError ==
    Exc("httpx", "RemoteProtocolError",
        {"httpx.RemoteProtocolError", "httpx.ProtocolError", "httpx.TransportError"},
        "Server disconnected without sending a response.")
HttpxConnectError ==
    Exc("httpx", "ConnectError",
        {"httpx.ConnectError", "httpx.NetworkError", "httpx.TransportError"},
        "All connection attempts failed")
HttpxConnectTimeout ==
    Exc("httpx", "ConnectTimeout",
        {"httpx.ConnectTimeout", "httpx.TimeoutException", "httpx.TransportError"},
        "timed out")
HttpxReadTimeout ==
    Exc("httpx", "ReadTimeout",
        {"httpx.ReadTimeout", "httpx.TimeoutException", "httpx.TransportError"},
        "The read operation timed out")
HttpcoreRemoteProtocolError ==
    Exc("httpcore", "RemoteProtocolError",
        {"httpcore.RemoteProtocolError", "httpcore.ProtocolError"},
        "Server disconnected without sending a response.")
ServerDisconnectedOSError ==
    Exc("builtins", "ConnectionResetError",
        {"ConnectionResetError", "ConnectionError", "OSError"}, "Server Disconnected")
ConnectionResetOSError ==
    Exc("builtins", "ConnectionResetError",
        {"ConnectionResetError", "ConnectionError", "OSError"}, "Connection reset by peer")
PostgrestAPIError ==
    Exc("postgrest.exceptions", "APIError", {"postgrest.exceptions.APIError"},
        "JWT expired")

Exceptions ==
    {HttpxRemoteProtocolError, HttpxConnectError, HttpxConnectTimeout, HttpxReadTimeout,
     HttpcoreRemoteProtocolError, ServerDisconnectedOSError, ConnectionResetOSError,
     PostgrestAPIError}

\* _is_connection_error
_is_connection_error(exc) ==
    \/ exc.bases \cap {"httpx.RemoteProtocolError", "httpx.ConnectError",
                       "httpx.ConnectTimeout"} # {}
    \/ "httpcore.RemoteProtocolError" \in exc.bases
    \/ exc.name = "RemoteProtocolError" /\ Contains(exc.module, "httpcore")
    \/ "OSError" \in exc.bases /\ Contains(lower(exc.message), "disconnected")

\* the faults the wrapper is written for: the three httpx classes, httpcore's
\* RemoteProtocolError and an OSError that says "disconnected"
TransientFaults ==
    {HttpxRemoteProtocolError, HttpxConnectError, HttpxConnectTimeout,
     HttpcoreRemoteProtocolError, ServerDisconnectedOSError}

Transient(fault) == fault # None /\ fault[1] \in TransientFaults

\* what a storage call made without the wrapper raises when it raises: a
\* dropped connection or an error answer of the API
StorageFaults == {HttpxRemoteProtocolError, PostgrestAPIError}

FaultsOf(o) == IF o = "raise" THEN StorageFaults ELSE {PostgrestAPIError}

\* how one call of _with_retry_on_disconnect ends
Returned(value, calls) == [raised |-> None, value |-> Some(value), calls |-> calls]
Raised(exc, calls) == [raised |-> Some(exc), value |-> None, calls |-> calls]

\* the for loop of _with_retry_on_disconnect from iteration attempt on: fn()
\* returns value unless faults[attempt + 1] names the exception it raises
RECURSIVE RetryLoop(_, _, _, _)
RetryLoop(value, faults, attempt, max_attempts) ==
    LET fault == IF attempt + 1 \in DOMAIN faults THEN faults[attempt + 1] ELSE None
    IN IF fault = None THEN Returned(value, attempt + 1)
       ELSE IF _is_connection_error(fault[1]) /\ attempt < max_attempts - 1
       THEN RetryLoop(value, faults, attempt + 1, max_attempts)
       ELSE Raised(fault[1], attempt + 1)

\* variant of _with_retry_on_disconnect with three attempts
_with_retry_on_disconnect_three_attempts(value, faults) == RetryLoop(value, faults, 0, 3)

\* variant of _with_retry_on_disconnect with a single attempt
_with_retry_on_disconnect_single_attempt(value, faults) == RetryLoop(value, faults, 0, 1)

\* _with_retry_on_disconnect(fn), max_attempts = 2
_with_retry_on_disconnect(value, faults) == RetryLoop(value, faults, 0, 2)

(***************************************************************************)
(* Tool registry and agent binding.                                        *)
(***************************************************************************)
TAVILY_TOOL_NAME == "tavily_web_search"
MCP_TOOL_NAME == "google_trends"

\* variant of is_tavily_available without the strip
is_tavily_available_without_strip(cfg) == cfg.tavily_api_key # ""

\* is_tavily_available: bool((settings.tavily_api_key or "").strip())
is_tavily_available(cfg) == strip(cfg.tavily_api_key) # ""

\* is_mcp_available: bool((settings.mcp_url or "").strip())
is_mcp_available(cfg) == strip(cfg.mcp_url) # ""

\* _build_tools: the names of the tools, in the order they are appended
_build_tools(cfg) ==
    (IF is_tavily_available(cfg) THEN <<TAVILY_TOOL_NAME>> ELSE <<>>)
    \o (IF is_mcp_available(cfg) THEN <<MCP_TOOL_NAME>> ELSE <<>>)

\* _create_agent: the fallback chain when there is no tool (or no tool-calling
\* agent to import), else an AgentExecutor over the tools
_create_agent(cfg, streaming) ==
    LET tools == _build_tools(cfg)
    IN IF tools = <<>> THEN [kind |-> "chain", tools |-> <<>>, streaming |-> streaming]
       ELSE IF ~cfg.langchain_agents
            THEN [kind |-> "chain", tools |-> <<>>, streaming |-> streaming]
            ELSE [kind |-> "executor", tools |-> tools, streaming |-> streaming]

(***************************************************************************)
(* Blocking runtime: invoke_agent.                                         *)
(***************************************************************************)
TookTooLong == "The request took too long. Please try a shorter question or try again later."
TemporarilyBusy == "Service is temporarily busy. Please try again in a moment."
SomethingWentWrong == "Something went wrong while answering. Please try again."
ProvideMessage == "Please provide a message."
NoResponse == "(No response)"

\* what AgentExecutor puts in "output" when max_iterations or
\* max_execution_time stops the loop
AgentStopped == "Agent stopped due to iteration limit or time limit."

\* str(result) of an AgentExecutor result whose "output" is empty
EmptyOutputRepr == "{'input': '...', 'output': ''}"

\* texts the engine returns as its answer
EngineTexts == {"Hi there", " Hi\n", " ", ""}

\* str(e) of the exceptions the engine raises
EngineErrors ==
    {"Deadline Exceeded", "429 Resource exhausted (quota)", "Connection reset by peer",
     "Timeout of 60.0s exceeded, last exception: 429 Resource exhausted"}

\* what one engine call does: it returns an answer, the loop is stopped by its
\* iteration cap or time limit (executor only), or it raises; tools are the
\* tools the reasoning loop of an executor called on the way
EngineOutcomes(binding) ==
    { [kind |-> "return", text |-> t, tools |-> {}] : t \in EngineTexts }
    \cup { [kind |-> "raise", text |-> m, tools |-> {}] : m \in EngineErrors }
    \cup (IF binding.kind = "executor"
          THEN { [kind |-> "stopped", text |-> AgentStopped, tools |-> {}] }
               \cup { [kind |-> "return", text |-> "Hi there", tools |-> {n}] :
                        n \in {binding.tools[i] : i \in DOMAIN binding.tools} }
          ELSE {})

\* variant of the except branch that tests rate/quota before timeout/deadline
BlockingFailureSentence_rate_first(err_msg) ==
    LET msg == lower(err_msg)
    IN IF Contains(msg, "rate") \/ Contains(msg, "quota") \/ Contains(msg, "429")
       THEN TemporarilyBusy
       ELSE IF Contains(msg, "timeout") \/ Contains(msg, "deadline") THEN TookTooLong
       ELSE SomethingWentWrong

\* the except branch of invoke_agent
BlockingFailureSentence(err_msg) ==
    LET msg == lower(err_msg)
    IN IF Contains(msg, "timeout") \/ Contains(msg, "deadline") THEN TookTooLong
       ELSE IF Contains(msg, "rate") \/ Contains(msg, "quota") \/ Contains(msg, "429")
            THEN TemporarilyBusy
       ELSE SomethingWentWrong

\* variant of the try branch that does not read the "output" key
ExtractOutput_without_output_key(binding, text) ==
    IF binding.kind = "executor" THEN strip(EmptyOutputRepr) ELSE strip(text)

\* the try branch of invoke_agent: AgentExecutor returns {"output": text}, the
\* fallback chain returns the text itself
ExtractOutput(binding, text) ==
    IF binding.kind = "executor"
    THEN IF text # "" THEN strip(text) ELSE strip(EmptyOutputRepr)
    ELSE strip(text)

\* invoke_agent, given the binding get_agent returned and what the engine does
invoke_agent(user_message, binding, outcome) ==
    IF strip(user_message) = "" THEN ProvideMessage
    ELSE IF outcome.kind = "raise" THEN BlockingFailureSentence(outcome.text)
    ELSE ExtractOutput(binding, outcome.text)

(***************************************************************************)
(* Streaming runtime: stream_agent_async, one engine event at a time.      *)
(***************************************************************************)
\* texts of the chunks the engine streams
StreamTexts == {"Hi", " ", ""}

\* what the engine's stream does next: astream_events events of the executor,
\* astream chunks of the fallback chain, or an exception.  A chunk of the
\* chat model has its text, whether it carries tool_call_chunks (tool_call)
\* and whether the model step it belongs to issues a tool call (tool_step):
\* a step that calls a tool may stream text chunks before the chunks that
\* carry the call
StreamEngineEvents(binding) ==
    IF binding.kind = "executor"
    THEN { [kind |-> "on_tool_start", text |-> "", name |-> n, tool_call |-> FALSE,
            tool_step |-> FALSE] :
              n \in {binding.tools[i] : i \in DOMAIN binding.tools} \cup {""} }
         \cup { [kind |-> "on_chat_model_stream", text |-> t, name |-> "",
                 tool_call |-> c.tool_call, tool_step |-> c.tool_step] :
              t \in StreamTexts,
              c \in { k \in [tool_call : BOOLEAN, tool_step : BOOLEAN] :
                         k.tool_call => k.tool_step } }
         \cup { [kind |-> "on_chain_end", text |-> "", name |-> "", tool_call |-> FALSE,
                 tool_step |-> FALSE] }
         \cup { [kind |-> "raise", text |-> m, name |-> "", tool_call |-> FALSE,
                 tool_step |-> FALSE] :
              m \in EngineErrors }
    ELSE { [kind |-> "chunk", text |-> t, name |-> "", tool_call |-> FALSE,
            tool_step |-> FALSE] : t \in StreamTexts }
         \cup { [kind |-> "raise", text |-> m, name |-> "", tool_call |-> FALSE,
                 tool_step |-> FALSE] :
              m \in EngineErrors }

TokenEvent(text) == [type |-> "token", content |-> text, tool |-> ""]
ToolStartEvent(name) == [type |-> "tool_start", content |-> "", tool |-> name]

\* the except branches of stream_agent_async
StreamFailureSentence(err) ==
    LET err_msg == lower(err)
    IN IF Contains(err_msg, "rate") \/ Contains(err_msg, "quota") \/ Contains(err_msg, "429")
       THEN TemporarilyBusy
       ELSE SomethingWentWrong

\* stream_agent_async: the events it yields for one engine event
stream_agent_yield(binding, e) ==
    IF e.kind = "raise" THEN <<TokenEvent(StreamFailureSentence(e.text))>>
    ELSE IF binding.kind = "executor"
    THEN IF e.kind = "on_tool_start"
         THEN IF e.name # "" THEN <<ToolStartEvent(e.name)>> ELSE <<>>
         ELSE IF e.kind = "on_chat_model_stream"
         THEN IF e.tool_call THEN <<>>
              ELSE IF e.text # "" THEN <<TokenEvent(e.text)>> ELSE <<>>
         ELSE <<>>
    ELSE IF e.text # "" THEN <<TokenEvent(e.text)>> ELSE <<>>

(***************************************************************************)
(* One request: send_message / send_message_stream and their routes.       *)
(***************************************************************************)
IdleReq ==
    [pc |-> "idle", mode |-> "none", user_id |-> "", access_token |-> "",
     content_in |-> "", content |-> "", conversation_id |-> None,
     conv_id |-> 0, conversation_created |-> FALSE, user_msg |-> None,
     history |-> <<>>, engine |-> "none", engine_text |-> "", engine_tools |-> {},
     tool_starts |-> <<>>, runtime_events |-> <<>>,
     assistant_content |-> "",
     parts |-> <<>>, tools_used |-> <<>>, n_events |-> 0, assistant_msg |-> None,
     frames |-> <<>>, closed |-> FALSE, status |-> 0, response |-> None,
     raised |-> "none", detail |-> "", ops |-> <<>>,
     limit |-> 0, offset |-> 0, conv |-> None, listed |-> <<>>]

Frame(type, content, tool) ==
    [type |-> type, content |-> content, tool |-> tool,
     conversation_id |-> 0, message_id |-> None, message |-> None]

\* routers/chat.py send_message: the status a ValueError is mapped to
RouterStatus(e) ==
    LET msg == lower(e)
    IN IF Contains(msg, "access token is required") THEN 401
       ELSE IF Contains(msg, "not found") \/ Contains(msg, "access denied") THEN 404
       ELSE IF Contains(msg, "content is required") \/ Contains(msg, "cannot be empty") THEN 400
       ELSE 500

\* routers/chat.py event_stream: the frame a ValueError is mapped to
ErrorFrame(e) ==
    IF Contains(lower(e), "access token")
    THEN Frame("error", "Not authenticated", "")
    ELSE Frame("error", e, "")

\* an exception of class cls leaves the service call: the blocking route maps a
\* ValueError to a status (anything else is an unhandled 500), the streaming
\* route turns a ValueError into an error frame and lets anything else end the
\* stream
Raise(rq, cls, e) ==
    IF rq.mode # "stream"
    THEN [rq EXCEPT !.pc = "done", !.raised = cls, !.detail = e,
                    !.status = IF cls = "ValueError" THEN RouterStatus(e) ELSE 500]
    ELSE [rq EXCEPT !.pc = "done", !.raised = cls, !.detail = e, !.closed = TRUE,
                    !.frames = IF cls = "ValueError" THEN Append(@, ErrorFrame(e)) ELSE @]

Logged(rq, op, res) == [rq EXCEPT !.ops = Append(@, [op |-> op, res |-> res])]

\* variant of the title with the ellipsis from 200 characters on
Title_ellipsis_at_limit(content) ==
    Prefix(content, TitleMaxLen) \o (IF Len(content) >= TitleMaxLen THEN "..." ELSE "")

\* title = content[:200] + ("..." if len(content) > 200 else "")
Title(content) ==
    Prefix(content, TitleMaxLen) \o (IF Len(content) > TitleMaxLen THEN "..." ELSE "")

\* the end of the turn: send_message returns and the route answers 200;
\* send_message_stream attaches tools_used and yields the done event
Finish(rq) ==
    IF rq.mode = "blocking"
    THEN [rq EXCEPT !.pc = "done", !.status = 200, !.response = rq.assistant_msg]
    ELSE LET msg == IF rq.assistant_msg # None /\ rq.tools_used # <<>>
                    THEN Some([rq.assistant_msg[1] EXCEPT !.metadata = Some(rq.tools_used)])
                    ELSE rq.assistant_msg
             done == [type |-> "done", content |-> "", tool |-> "",
                      conversation_id |-> rq.conv_id,
                      message_id |-> IF msg # None THEN Some(msg[1].id) ELSE None,
                      message |-> msg]
         IN [rq EXCEPT !.pc = "done", !.closed = TRUE, !.assistant_msg = msg,
                       !.frames = Append(@, done)]

\* the conversation ids a caller may send: none, a row's id, an id of no row
ConversationIds == {None} \cup {Some(c) : c \in 1..(Len(conversations) + 1)}

\* variant of the checks with the content check first
CheckRequest_content_first(rq) ==
    IF strip(rq.content_in) = ""
    THEN Raise(rq, "ValueError", "Message content is required")
    ELSE IF rq.access_token = ""
    THEN Raise(rq, "ValueError", "Access token is required for RLS")
    ELSE [rq EXCEPT !.pc = "resolve", !.content = strip(rq.content_in)]

\* the credential check, then content = (content or "").strip() and the
\* content check
CheckRequest(rq) ==
    IF rq.access_token = ""
    THEN Raise(rq, "ValueError", "Access token is required for RLS")
    ELSE IF strip(rq.content_in) = ""
    THEN Raise(rq, "ValueError", "Message content is required")
    ELSE [rq EXCEPT !.pc = "resolve", !.content = strip(rq.content_in)]

\* send_message / send_message_stream up to the first storage call
Send(r) ==
    /\ req[r].pc = "idle"
    /\ \E mode \in {"blocking", "stream"}, user_id \in Users, access_token \in Tokens,
          content \in Contents, conversation_id \in ConversationIds :
          LET rq == [req[r] EXCEPT !.mode = mode, !.user_id = user_id,
                                   !.access_token = access_token, !.content_in = content,
                                   !.conversation_id = conversation_id]
          IN req' = [req EXCEPT ![r] = CheckRequest(rq)]
    /\ UNCHANGED <<storeVars, agentVars, auxVars>>

\* conversation_id is not None: conv_repo.get_by_id
ResolveConversation(r) ==
    /\ req[r].pc = "resolve"
    /\ req[r].conversation_id # None
    /\ \E o \in SelectOutcomes : \E fault \in FaultsOf(o) :
          LET rq == Logged(req[r], "conversations.select", o)
              conv == Conversation_get_by_id(rq.conversation_id[1], rq.user_id)
          IN req' = [req EXCEPT ![r] =
                IF o = "raise" THEN Raise(rq, "Exception", fault.message)
                ELSE IF conv = None
                THEN Raise(rq, "ValueError", "Conversation not found or access denied")
                ELSE [rq EXCEPT !.pc = "persist_user", !.conv_id = conv[1].id,
                                !.conversation_created = FALSE]]
    /\ UNCHANGED <<storeVars, agentVars, auxVars>>

\* conversation_id is None: conv_repo.create(user_id, title=None)
CreateConversation(r) ==
    /\ req[r].pc = "resolve"
    /\ req[r].conversation_id = None
    /\ \E o \in InsertOutcomes : \E fault \in FaultsOf(o) :
          LET rq == Logged(req[r], "conversations.insert", o)
          IN /\ conversations' =
                   IF o = "ok"
                   THEN Append(conversations, [user_id |-> rq.user_id, title |-> None])
                   ELSE conversations
             /\ req' = [req EXCEPT ![r] =
                   IF o = "raise" THEN Raise(rq, "Exception", fault.message)
                   ELSE IF o = "empty"
                   THEN Raise(rq, "ValueError", "Failed to create conversation")
                   ELSE [rq EXCEPT !.pc = "persist_user",
                                   !.conv_id = Len(conversations) + 1,
                                   !.conversation_created = TRUE]]
    /\ UNCHANGED <<messages, agentVars, auxVars>>

\* msg_repo.create(role="user")
PersistUserMessage(r) ==
    /\ req[r].pc = "persist_user"
    /\ \E o \in InsertOutcomes : \E fault \in FaultsOf(o) :
          LET rq == Logged(req[r], "messages.insert.user", o)
              row == NewMessage(rq.conv_id, rq.user_id, "user", rq.content, None)
          IN /\ messages' = IF o = "ok" THEN Append(messages, row) ELSE messages
             /\ req' = [req EXCEPT ![r] =
                   IF o = "raise" THEN Raise(rq, "Exception", fault.message)
                   ELSE IF o = "empty"
                   THEN Raise(rq, "ValueError", "Failed to save user message")
                   ELSE [rq EXCEPT !.pc = "history", !.user_msg = Some(row)]]
    /\ UNCHANGED <<conversations, agentVars, auxVars>>

\* msg_repo.get_conversation_history_for_agent
LoadHistory(r) ==
    /\ req[r].pc = "history"
    /\ \E o \in SelectOutcomes : \E fault \in FaultsOf(o) :
          LET rq == Logged(req[r], "messages.select", o)
          IN req' = [req EXCEPT ![r] =
                IF o = "raise" THEN Raise(rq, "Exception", fault.message)
                ELSE [rq EXCEPT
                        !.pc = IF rq.mode = "blocking" THEN "agent" ELSE "stream_open",
                        !.history = get_conversation_history_for_agent(
                                        rq.conv_id, rq.user_id, DEFAULT_AGENT_HISTORY_LIMIT)]]
    /\ UNCHANGED <<storeVars, agentVars, auxVars>>

\* get_agent / get_streaming_agent: the singleton, built on first use
get_agent(current, cfg, streaming) ==
    IF current = None THEN Some(_create_agent(cfg, streaming)) ELSE current

\* await invoke_agent_async(content, history): the binding is fetched unless
\* the message is empty, then the engine is called
InvokeAgent(r) ==
    /\ req[r].pc = "agent"
    /\ LET agent == get_agent(agent_executor, settings, FALSE)
       IN /\ agent_executor' = IF strip(req[r].content) = "" THEN agent_executor ELSE agent
          /\ \E outcome \in EngineOutcomes(agent[1]) :
                req' = [req EXCEPT ![r] =
                    [req[r] EXCEPT !.pc = "persist_asst", !.engine = outcome.kind,
                                   !.engine_text = outcome.text,
                                   !.engine_tools = outcome.tools,
                                   !.assistant_content =
                                       invoke_agent(req[r].content, agent[1], outcome)]]
    /\ UNCHANGED <<storeVars, settings, streaming_agent_executor, auxVars>>

\* the tool names of the tool_start events among the runtime's events
ToolStarts(events) ==
    LET starts == SelectSeq(events, LAMBDA ev : ev.type = "tool_start")
    IN [i \in DOMAIN starts |-> starts[i].tool]

\* variant of the loop body that records every tool name, repeated or not
OnRuntimeEvent_without_dedup(rq, event) ==
    IF event.type = "token"
    THEN IF event.content # ""
         THEN [rq EXCEPT !.parts = Append(@, event.content),
                         !.frames = Append(@, Frame("chunk", event.content, ""))]
         ELSE rq
    ELSE IF event.type = "tool_start"
    THEN [rq EXCEPT !.tools_used = IF event.tool # "" THEN Append(@, event.tool) ELSE @,
                    !.frames = Append(@, Frame("tool_start", "", event.tool))]
    ELSE rq

\* variant of the loop body that announces a tool only the first time
OnRuntimeEvent_tool_start_once(rq, event) ==
    IF event.type = "token"
    THEN IF event.content # ""
         THEN [rq EXCEPT !.parts = Append(@, event.content),
                         !.frames = Append(@, Frame("chunk", event.content, ""))]
         ELSE rq
    ELSE IF event.type = "tool_start"
    THEN IF event.tool # "" /\ \A i \in DOMAIN rq.tools_used : rq.tools_used[i] # event.tool
         THEN [rq EXCEPT !.tools_used = Append(@, event.tool),
                         !.frames = Append(@, Frame("tool_start", "", event.tool))]
         ELSE rq
    ELSE rq

\* the body of the async for loop of send_message_stream, for one event of
\* the runtime
OnRuntimeEvent(rq, event) ==
    IF event.type = "token"
    THEN IF event.content # ""
         THEN [rq EXCEPT !.parts = Append(@, event.content),
                         !.frames = Append(@, Frame("chunk", event.content, ""))]
         ELSE rq
    ELSE IF event.type = "tool_start"
    THEN [rq EXCEPT !.tools_used =
                        IF event.tool # "" /\ \A i \in DOMAIN @ : @[i] # event.tool
                        THEN Append(@, event.tool) ELSE @,
                    !.frames = Append(@, Frame("tool_start", "", event.tool))]
    ELSE rq

RECURSIVE OnRuntimeEvents(_, _)
OnRuntimeEvents(rq, events) ==
    IF events = <<>> THEN rq
    ELSE OnRuntimeEvents(OnRuntimeEvent(rq, Head(events)), Tail(events))

\* variant of the step after the loop that keeps the surrounding whitespace
AfterStream_without_strip(rq) ==
    [rq EXCEPT !.pc = "persist_asst", !.assistant_content = join(rq.parts)]

\* after the loop: assistant_content = "".join(full_content_parts).strip()
AfterStream(rq) ==
    [rq EXCEPT !.pc = "persist_asst", !.assistant_content = strip(join(rq.parts))]

\* variant of the except branch that keeps the text forwarded so far
OnStreamException_keeping_parts(rq) ==
    [rq EXCEPT !.parts = Append(@, SomethingWentWrong),
               !.frames = Append(@, Frame("chunk", SomethingWentWrong, ""))]

\* the except branch of send_message_stream; stream_agent_async turns every
\* engine exception into a failure token itself, so no step of the chat
\* specification takes it
OnStreamException(rq) ==
    [rq EXCEPT !.parts = <<SomethingWentWrong>>,
               !.frames = Append(@, Frame("chunk", SomethingWentWrong, ""))]

\* the first step of the loop: stream_agent_async fetches the binding
OpenStream(r) ==
    /\ req[r].pc = "stream_open"
    /\ streaming_agent_executor' = get_agent(streaming_agent_executor, settings, TRUE)
    /\ req' = [req EXCEPT ![r] = [req[r] EXCEPT !.pc = "stream"]]
    /\ UNCHANGED <<storeVars, settings, agent_executor, auxVars>>

\* one engine event: the runtime translates it, the orchestrator consumes
\* what the runtime yields; an engine exception ends the runtime's stream
\* after its failure token
StreamEvent(r) ==
    /\ req[r].pc = "stream"
    /\ req[r].n_events < MaxEvents
    /\ \E e \in StreamEngineEvents(streaming_agent_executor[1]) :
          LET rq == OnRuntimeEvents([req[r] EXCEPT
                                        !.n_events = @ + 1,
                                        !.engine_tools =
                                            IF e.kind = "on_tool_start" /\ e.name # ""
                                            THEN @ \cup {e.name} ELSE @,
                                        !.tool_starts =
                                            @ \o ToolStarts(stream_agent_yield(streaming_agent_executor[1], e)),
                                        !.runtime_events =
                                            @ \o stream_agent_yield(streaming_agent_executor[1], e)],
                                    stream_agent_yield(streaming_agent_executor[1], e))
          IN req' = [req EXCEPT ![r] =
                IF e.kind = "raise"
                THEN AfterStream([rq EXCEPT !.engine = "raise", !.engine_text = e.text])
                ELSE rq]
    /\ UNCHANGED <<storeVars, agentVars, auxVars>>

\* the engine's stream is exhausted
EndStream(r) ==
    /\ req[r].pc = "stream"
    /\ req' = [req EXCEPT ![r] = AfterStream([req[r] EXCEPT !.engine = "return"])]
    /\ UNCHANGED <<storeVars, agentVars, auxVars>>

\* variant of the content argument without the placeholder
AssistantContentArgument_without_placeholder(rq) == rq.assistant_content

\* the content argument of msg_repo.create(role="assistant"): assistant_content
\* in send_message, assistant_content or "(No response)" in send_message_stream
AssistantContentArgument(rq) ==
    IF rq.mode = "blocking" THEN rq.assistant_content
    ELSE IF rq.assistant_content # "" THEN rq.assistant_content
    ELSE NoResponse

\* variant of the title guard that leaves the title alone
WritesTitle_never(rq) == FALSE

\* variant of the title guard that looks at the stored title
WritesTitle_when_untitled(rq) == conversations[rq.conv_id].title = None

\* if conversation_created: the turn writes the title
WritesTitle(rq) == rq.conversation_created

\* msg_repo.create(role="assistant"): send_message raises when no row comes
\* back, send_message_stream goes on
PersistAssistantMessage(r) ==
    /\ req[r].pc = "persist_asst"
    /\ \E o \in InsertOutcomes : \E fault \in FaultsOf(o) :
          LET rq == Logged(req[r], "messages.insert.assistant", o)
              content == AssistantContentArgument(rq)
              metadata == IF rq.mode = "stream" /\ rq.tools_used # <<>>
                          THEN Some(rq.tools_used) ELSE None
              row == NewMessage(rq.conv_id, rq.user_id, "assistant", content, metadata)
              saved == [rq EXCEPT !.assistant_msg = IF o = "ok" THEN Some(row) ELSE None]
          IN /\ messages' = IF o = "ok" THEN Append(messages, row) ELSE messages
             /\ req' = [req EXCEPT ![r] =
                   IF o = "raise" THEN Raise(rq, "Exception", fault.message)
                   ELSE IF o = "empty" /\ rq.mode = "blocking"
                   THEN Raise(rq, "ValueError", "Failed to save assistant reply")
                   ELSE IF WritesTitle(saved) THEN [saved EXCEPT !.pc = "title"]
                   ELSE Finish(saved)]
    /\ UNCHANGED <<conversations, agentVars, auxVars>>

\* Conversation.update: .update({"title": ...}).eq("id", ...).eq("user_id", ...)
Conversation_update(conversation_id, user_id, title) ==
    [c \in DOMAIN conversations |->
        IF c = conversation_id /\ conversations[c].user_id = user_id
        THEN [conversations[c] EXCEPT !.title = Some(title)]
        ELSE conversations[c]]

\* variant of the title step that repeats the update after a dropped
\* connection
UpdateTitle_with_retry(r) ==
    /\ req[r].pc = "title"
    /\ \E o \in InsertOutcomes : \E fault \in FaultsOf(o) :
          LET first == Logged(req[r], "conversations.update", o)
              rq == IF o = "raise" /\ _is_connection_error(fault)
                    THEN Logged(first, "conversations.update", "ok") ELSE first
              stored == o = "ok" \/ (o = "raise" /\ _is_connection_error(fault))
          IN /\ conversations' =
                   IF stored
                   THEN Conversation_update(rq.conv_id, rq.user_id, Title(rq.content))
                   ELSE conversations
             /\ req' = [req EXCEPT ![r] =
                   IF o = "raise" /\ ~_is_connection_error(fault)
                   THEN Raise(rq, "Exception", fault.message) ELSE Finish(rq)]
    /\ UNCHANGED <<messages, agentVars, auxVars>>

\* if conversation_created: conv_repo.update(conv_id, user_id, title=title)
UpdateTitle(r) ==
    /\ req[r].pc = "title"
    /\ \E o \in InsertOutcomes : \E fault \in FaultsOf(o) :
          LET rq == Logged(req[r], "conversations.update", o)
          IN /\ conversations' =
                   IF o = "ok"
                   THEN Conversation_update(rq.conv_id, rq.user_id, Title(rq.content))
                   ELSE conversations
             /\ req' = [req EXCEPT ![r] =
                   IF o = "raise" THEN Raise(rq, "Exception", fault.message) ELSE Finish(rq)]
    /\ UNCHANGED <<messages, agentVars, auxVars>>

(***************************************************************************)
(* get_messages and its route.                                             *)
(***************************************************************************)
\* limits and offsets a caller sends
Limits == {0, 1, 2, 100, 101, 200, 201}
Offsets == {-1, 0, 1}

\* what the two attempts of a retried read may raise
ReadFaults ==
    { <<>>, <<Some(HttpxRemoteProtocolError)>>,
      <<Some(HttpxRemoteProtocolError), Some(HttpxConnectError)>>,
      <<Some(PostgrestAPIError)>> }

\* one log entry per call the retry wrapper made
LoggedCalls(rq, op, run) ==
    [rq EXCEPT !.ops = @ \o [i \in 1..run.calls |->
        [op |-> op, res |-> IF i < run.calls \/ run.raised # None THEN "raise" ELSE "ok"]]]

\* variant of the limit and offset checks that rejects the upper limit itself
ValidatePage_upper_exclusive(limit, offset, max_limit, limit_detail) ==
    IF limit < 1 \/ limit >= max_limit THEN Some(limit_detail)
    ELSE IF offset < 0 THEN Some("offset must be non-negative")
    ELSE None

\* the limit and offset checks of the two list routes: the detail of the 400
\* answer, or None
ValidatePage(limit, offset, max_limit, limit_detail) ==
    IF limit < 1 \/ limit > max_limit THEN Some(limit_detail)
    ELSE IF offset < 0 THEN Some("offset must be non-negative")
    ELSE None

\* Conversation.get_by_user_id: the user's rows, newest first, one page
Conversation_get_by_user_id(user_id, limit, offset) ==
    LET ids == SelectSeq([i \in 1..Len(conversations) |-> Len(conversations) + 1 - i],
                         LAMBDA c : conversations[c].user_id = user_id)
    IN Page([i \in DOMAIN ids |-> ConvRow(ids[i])], limit, offset)

\* routers/chat.py list_conversations up to the service's read
ListConversations(r) ==
    /\ req[r].pc = "idle"
    /\ \E user_id \in Users, access_token \in Tokens, limit \in Limits, offset \in Offsets :
          LET rq == [req[r] EXCEPT !.mode = "list_conversations", !.user_id = user_id,
                                   !.access_token = access_token, !.limit = limit,
                                   !.offset = offset]
              invalid == ValidatePage(limit, offset, 100, "limit must be between 1 and 100")
          IN req' = [req EXCEPT ![r] =
                IF invalid # None
                THEN [rq EXCEPT !.pc = "done", !.status = 400, !.detail = invalid[1]]
                ELSE IF access_token = ""
                THEN [rq EXCEPT !.pc = "done", !.status = 401, !.detail = "Not authenticated"]
                ELSE [rq EXCEPT !.pc = "fetch_convs"]]
    /\ UNCHANGED <<storeVars, agentVars, auxVars>>

\* return _with_retry_on_disconnect(_fetch); the route answers 200
FetchConversations(r) ==
    /\ req[r].pc = "fetch_convs"
    /\ \E faults \in ReadFaults :
          LET rows == Conversation_get_by_user_id(req[r].user_id, req[r].limit, req[r].offset)
              run == _with_retry_on_disconnect(rows, faults)
              rq == LoggedCalls(req[r], "conversations.select", run)
          IN req' = [req EXCEPT ![r] =
                IF run.raised # None THEN Raise(rq, "Exception", run.raised[1].message)
                ELSE [rq EXCEPT !.pc = "done", !.status = 200, !.listed = run.value[1]]]
    /\ UNCHANGED <<storeVars, agentVars, auxVars>>

\* routers/chat.py get_messages up to the service's first read: limit, offset
\* and credential checks
GetMessages(r) ==
    /\ req[r].pc = "idle"
    /\ \E user_id \in Users, access_token \in Tokens, limit \in Limits, offset \in Offsets,
          conversation_id \in 1..(Len(conversations) + 1) :
          LET rq == [req[r] EXCEPT !.mode = "get_messages", !.user_id = user_id,
                                   !.access_token = access_token, !.limit = limit,
                                   !.offset = offset, !.conversation_id = Some(conversation_id)]
              invalid == ValidatePage(limit, offset, 200, "limit must be between 1 and 200")
          IN req' = [req EXCEPT ![r] =
                IF invalid # None
                THEN [rq EXCEPT !.pc = "done", !.status = 400, !.detail = invalid[1]]
                ELSE IF access_token = ""
                THEN [rq EXCEPT !.pc = "done", !.status = 401, !.detail = "Not authenticated"]
                ELSE [rq EXCEPT !.pc = "fetch_conv"]]
    /\ UNCHANGED <<storeVars, agentVars, auxVars>>

\* conv = _with_retry_on_disconnect(_fetch_conv); no conversation is the
\* not-found answer (None, []), which the route maps to 404
FetchConversation(r) ==
    /\ req[r].pc = "fetch_conv"
    /\ \E faults \in ReadFaults :
          LET conv == Conversation_get_by_id(req[r].conversation_id[1], req[r].user_id)
              run == _with_retry_on_disconnect(conv, faults)
              rq == LoggedCalls(req[r], "conversations.select", run)
          IN req' = [req EXCEPT ![r] =
                IF run.raised # None THEN Raise(rq, "Exception", run.raised[1].message)
                ELSE IF run.value[1] = None
                THEN [rq EXCEPT !.pc = "done", !.status = 404, !.conv = None, !.listed = <<>>,
                                !.detail = "Conversation not found or access denied"]
                ELSE [rq EXCEPT !.pc = "fetch_msgs", !.conv = run.value[1]]]
    /\ UNCHANGED <<storeVars, agentVars, auxVars>>

\* messages = _with_retry_on_disconnect(_fetch_messages); the route answers 200
FetchMessages(r) ==
    /\ req[r].pc = "fetch_msgs"
    /\ \E faults \in ReadFaults :
          LET rows == Message_get_by_conversation_id(
                          req[r].conversation_id[1], req[r].user_id,
                          req[r].limit, req[r].offset)
              run == _with_retry_on_disconnect(rows, faults)
              rq == LoggedCalls(req[r], "messages.select", run)
          IN req' = [req EXCEPT ![r] =
                IF run.raised # None THEN Raise(rq, "Exception", run.raised[1].message)
                ELSE [rq EXCEPT !.pc = "done", !.status = 200, !.listed = run.value[1]]]
    /\ UNCHANGED <<storeVars, agentVars, auxVars>>

(***************************************************************************)
(* The chat specification.                                                 *)
(***************************************************************************)
\* an earlier conversation of user "u2" with n messages, user and assistant
\* in turn
EarlierConversation(n) ==
    [conversations |-> <<[user_id |-> "u2", title |-> Some("Earlier chat")]>>,
     messages |->
        [i \in 1..n |->
            [id |-> i, conversation_id |-> 1, user_id |-> "u2",
             role |-> IF i % 2 = 1 THEN "user" ELSE "assistant",
             content |-> IF i % 2 = 1 THEN "Earlier chat" ELSE "Sure.",
             metadata |-> None]]]

\* both tables empty, or one earlier conversation of another user: a short
\* one, one that the inbound message fills up to the history limit, and one
\* that already holds as many messages as the history limit
SeedStores ==
    { [conversations |-> <<>>, messages |-> <<>>],
      EarlierConversation(2),
      EarlierConversation(DEFAULT_AGENT_HISTORY_LIMIT - 1),
      EarlierConversation(DEFAULT_AGENT_HISTORY_LIMIT) }


(***************************************************************************)
(* Search adapter: search_tavily and the tool's invoke.                    *)
(***************************************************************************)
MaxItems == 2

\* settings.tavily_max_results
TAVILY_MAX_RESULTS == 5

\* how a call ends: with a value, or with an exception of the named class
Ok(value) == [raised |-> None, value |-> Some(value)]
Throw(exc) == [raised |-> Some(exc), value |-> None]

\* the "score" of a result item: absent, a number, a numeric string, null, or
\* a string that is no number
Scores ==
    { [kind |-> "absent"], [kind |-> "number"], [kind |-> "numeric_str"],
      [kind |-> "null"], [kind |-> "text"] }

\* a result item: an object with a score, or a bare string
TavilyItems ==
    { [kind |-> "dict", title |-> "T", url |-> "http://t", content |-> "c", score |-> sc] :
        sc \in Scores }
    \cup { [kind |-> "str", title |-> "", url |-> "", content |-> "", score |-> [kind |-> "absent"]] }

RECURSIVE SeqsUpTo(_, _)
SeqsUpTo(S, n) ==
    IF n = 0 THEN {<<>>}
    ELSE LET shorter == SeqsUpTo(S, n - 1)
         IN shorter \cup { Append(q, x) : q \in {t \in shorter : Len(t) = n - 1}, x \in S }

\* the "results" of a response: absent, not a list, or a list of items
TavilyResults ==
    { [kind |-> "absent", items |-> <<>>], [kind |-> "str", items |-> <<>>] }
    \cup { [kind |-> "list", items |-> q] : q \in SeqsUpTo(TavilyItems, MaxItems) }

\* what client.search does: it raises, or returns nothing, an empty object,
\* or an object with "results" and "answer"; no_sdk is the failed import
TavilyRemotes ==
    { [kind |-> "raise", message |-> m, results |-> [kind |-> "absent", items |-> <<>>], answer |-> None] :
        m \in {"Request timed out", "401 Unauthorized", "Connection refused"} }
    \cup { [kind |-> k, message |-> "", results |-> [kind |-> "absent", items |-> <<>>], answer |-> None] :
        k \in {"no_sdk", "none", "empty"} }
    \cup { [kind |-> "dict", message |-> "", results |-> rs, answer |-> a] :
        rs \in TavilyResults, a \in {None, Some("A")} }

TavilyQueries == {"", "  ", " cats "}

\* float(item.get("score", 0.0))
float_score(score) ==
    IF score.kind = "null" THEN Throw("TypeError")
    ELSE IF score.kind = "text" THEN Throw("ValueError")
    ELSE Ok("float")

\* _normalize_result
_normalize_result(item) ==
    IF item.kind # "dict" THEN Throw("AttributeError")
    ELSE LET score == float_score(item.score)
         IN IF score.raised # None THEN score
            ELSE Ok([title |-> item.title, url |-> item.url, content |-> item.content])

\* [_normalize_result(r) for r in results]: the first exception ends the list
RECURSIVE NormalizeAll(_)
NormalizeAll(items) ==
    IF items = <<>> THEN Ok(<<>>)
    ELSE LET first == _normalize_result(Head(items))
         IN IF first.raised # None THEN first
            ELSE LET rest == NormalizeAll(Tail(items))
                 IN IF rest.raised # None THEN rest
                    ELSE Ok(<<first.value[1]>> \o rest.value[1])

Payload(query, results, answer, error) ==
    [query |-> query, results |-> results, answer |-> answer, error |-> error]

\* _build_success_payload
_build_success_payload(query, raw_response, max_results) ==
    LET results == IF raw_response.results.kind = "list" THEN raw_response.results.items ELSE <<>>
        items == NormalizeAll(SubSeq(results, 1, IF Len(results) < max_results
                                                 THEN Len(results) ELSE max_results))
    IN IF items.raised # None THEN items
       ELSE Ok(Payload(query, items.value[1], raw_response.answer, None))

\* _build_error_payload
_build_error_payload(query, message) == Payload(query, <<>>, None, Some(message))

\* the except branch of search_tavily
TavilyFailureMessage(msg) ==
    IF Contains(lower(msg), "api_key") \/ Contains(lower(msg), "auth") \/ Contains(msg, "401")
    THEN "Web search authentication failed. Check TAVILY_API_KEY."
    ELSE IF Contains(lower(msg), "timeout") \/ Contains(lower(msg), "timed out")
    THEN "Web search timed out. Please try again."
    ELSE "Web search failed. Please try again later."

\* search_tavily, given what the remote call does
search_tavily(cfg, query, remote, max_results) ==
    IF strip(query) = ""
    THEN Ok(_build_error_payload(query, "Search query cannot be empty."))
    ELSE IF strip(cfg.tavily_api_key) = ""
    THEN Ok(_build_error_payload(query, "Web search is not configured. Please set TAVILY_API_KEY."))
    ELSE IF remote.kind = "no_sdk"
    THEN Ok(_build_error_payload(query, "Web search dependency is not available."))
    ELSE IF remote.kind = "raise"
    THEN Ok(_build_error_payload(query, TavilyFailureMessage(strip(remote.message))))
    ELSE IF remote.kind \in {"none", "empty"}
    THEN Ok(_build_error_payload(query, "Web search returned no data."))
    ELSE _build_success_payload(query, remote, max_results)

RECURSIVE joinLines(_)
joinLines(lines) ==
    IF lines = <<>> THEN ""
    ELSE IF Len(lines) = 1 THEN lines[1]
    ELSE lines[1] \o "\n" \o joinLines(Tail(lines))

\* _format_tavily_result
_format_tavily_result(payload) ==
    LET results == Prefix(payload.results, 5)
    IN IF payload.error # None /\ payload.error # Some("")
       THEN "Search error: " \o payload.error[1]
       ELSE IF payload.answer # None /\ payload.answer # Some("")
       THEN "Answer: " \o payload.answer[1] \o "\n\nSources:\n"
            \o joinLines([i \in DOMAIN results |->
                   "- " \o results[i].title \o " (" \o results[i].url \o "): "
                   \o Prefix(results[i].content, 200) \o "..."])
       ELSE IF results = <<>> THEN "No search results found."
       ELSE joinLines([i \in DOMAIN results |->
                "- " \o results[i].title \o " | " \o results[i].url \o "\n  "
                \o Prefix(results[i].content, 300)])

\* _tavily_invoke
_tavily_invoke(cfg, query, remote) ==
    IF strip(query) = "" THEN Ok("Error: search query cannot be empty.")
    ELSE LET out == search_tavily(cfg, strip(query), remote, TAVILY_MAX_RESULTS)
         IN IF out.raised # None THEN out
            ELSE Ok(_format_tavily_result(out.value[1]))

(***************************************************************************)
(* Trends adapter: the MCP call over HTTP and the tool's invoke.           *)
(***************************************************************************)
MaxFails == 3

\* settings.mcp_max_retries
MCP_MAX_RETRIES == 2

\* _mcp_endpoint
_mcp_endpoint(cfg) ==
    LET base == rstrip_slash(cfg.mcp_url)
    IN IF base # "" THEN base \o "/mcp/" ELSE ""

\* what the initialize POST does: it raises, answers another status than 200,
\* answers 200 without the mcp-session-id header, or answers with a session id
HandshakeOutcomes == {"raise", "status", "no_header", "session"}

\* the ids the server gives out, one per initialize it answers
SessionIds == <<"sid-1", "sid-2">>

Cached(cache, url) == \E e \in cache : e.url = url

\* variant of _ensure_mcp_session that does not look into the cache
_ensure_mcp_session_without_cache(cache, url, handshake, issued) ==
    IF handshake = "session"
    THEN [session_id |-> Some(issued), handshakes |-> 1,
          cache |-> {e \in cache : e.url # url} \cup {[url |-> url, session_id |-> issued]}]
    ELSE [session_id |-> None, handshakes |-> 1, cache |-> cache]

\* _ensure_mcp_session: the session id for the tool call, the initialize
\* POSTs made and the cache after; issued is the id the server gives out
\* when it answers the initialize with one
_ensure_mcp_session(cache, url, handshake, issued) ==
    IF Cached(cache, url)
    THEN [session_id |-> Some((CHOOSE e \in cache : e.url = url).session_id),
          handshakes |-> 0, cache |-> cache]
    ELSE IF handshake = "session"
    THEN [session_id |-> Some(issued), handshakes |-> 1,
          cache |-> cache \cup {[url |-> url, session_id |-> issued]}]
    ELSE [session_id |-> None, handshakes |-> 1, cache |-> cache]

\* the "error" member of a JSON-RPC response: absent, null, an object whose
\* "message" is absent, null or a string, or a plain string
RpcErrors ==
    { [kind |-> "absent", message |-> None], [kind |-> "null", message |-> None],
      [kind |-> "string", message |-> Some("boom")],
      [kind |-> "object", message |-> None],
      [kind |-> "object_null_message", message |-> None],
      [kind |-> "object", message |-> Some("tool failed")],
      [kind |-> "object", message |-> Some("401 Unauthorized")] }

\* the items of a trends answer: two objects and a bare string
TrendItems ==
    << [kind |-> "dict", keyword |-> "ai", volume |-> "100"],
       [kind |-> "dict", keyword |-> "tla", volume |-> ""],
       [kind |-> "str", keyword |-> "plain", volume |-> ""] >>

\* the "result" member: absent, a bare string, an object whose content is a
\* text holding a JSON list, a JSON object with "trends", or no JSON at all,
\* or an object without content
RpcResults == {"absent", "string", "content_json_list", "content_json_dict",
               "content_text", "dict"}

\* what the POST of the attempt that is not a connection failure does
McpFinals ==
    { [kind |-> "exception", code |-> 0, error |-> [kind |-> "absent", message |-> None],
       result |-> "absent"] }
    \cup { [kind |-> "status", code |-> c, error |-> [kind |-> "absent", message |-> None],
            result |-> "absent"] : c \in {404, 500} }
    \cup { [kind |-> "unparsable", code |-> 200, error |-> [kind |-> "absent", message |-> None],
            result |-> "absent"] }
    \cup { [kind |-> "body", code |-> 200, error |-> e, result |-> "absent"] : e \in RpcErrors }
    \cup { [kind |-> "body", code |-> 200, error |-> [kind |-> "absent", message |-> None],
            result |-> r] : r \in RpcResults }

\* one tool call as the network plays it: the handshake, how many POSTs in a
\* row fail with ConnectError / ConnectTimeout / ReadTimeout, what the next
\* POST does, and whether the worker future outlasts its wait
McpScripts ==
    { s \in [handshake : HandshakeOutcomes,
             issued : {SessionIds[i] : i \in DOMAIN SessionIds},
             fails : 0..MaxFails, final : McpFinals,
             in_loop : BOOLEAN, future_timeout : BOOLEAN] :
        s.handshake # "session" => s.issued = SessionIds[1] }

McpPayload(data, error) == [data |-> data, error |-> error]

\* _parse_tool_result
_parse_tool_result(result) ==
    IF result = "absent" THEN Ok([kind |-> "none", items |-> <<>>])
    ELSE IF result = "string" THEN Throw("AttributeError")
    ELSE IF result = "content_json_list" THEN Ok([kind |-> "list", items |-> TrendItems])
    ELSE IF result = "content_json_dict" THEN Ok([kind |-> "dict_trends", items |-> TrendItems])
    ELSE IF result = "content_text" THEN Ok([kind |-> "str", items |-> <<>>])
    ELSE Ok([kind |-> "dict", items |-> <<>>])

\* _call_mcp_tool_async after a 200 answer with a parsed body
OnMcpBody(final) ==
    LET err == final.error
    IN IF err.kind \in {"absent", "null"}
       THEN LET data == _parse_tool_result(final.result)
            IN IF data.raised # None THEN data
               ELSE Ok(McpPayload(data.value, None))
       ELSE IF err.kind = "string" THEN Throw("AttributeError")
       ELSE IF err.kind = "object_null_message" THEN Throw("TypeError")
       ELSE LET msg == IF err.message = None THEN "Unknown MCP error" ELSE err.message[1]
            IN IF Contains(msg, "401") \/ Contains(lower(msg), "unauthorized")
               THEN Ok(McpPayload(None, Some("Google Trends service authentication failed.")))
               ELSE Ok(McpPayload(None, Some("Google Trends request failed. Please try again.")))

\* variant of the attempt count with one attempt more
RetryAttempts_one_more(max_retries) == max_retries + 2

\* for attempt in range(max_retries + 1): the attempts the loop can make
RetryAttempts(max_retries) == max_retries + 1

\* asyncio.sleep(0.5 * (attempt + 1)), in half seconds
BackoffWait(attempt) == attempt + 1

\* the sleeps of a call whose first `fails` POSTs fail on the connection:
\* one after every failed attempt but the last the loop can make
BackoffWaits(fails, max_retries) ==
    LET slept == IF fails < max_retries THEN fails ELSE max_retries
    IN [i \in 1..slept |-> BackoffWait(i - 1)]

\* _call_mcp_tool_async: how it ends, the cache after it, the tools/call
\* POSTs made, the sleeps between them, the session id sent and the
\* initialize POSTs made
_call_mcp_tool_async(cfg, cache, script, max_retries) ==
    LET url == _mcp_endpoint(cfg)
        session == _ensure_mcp_session(cache, url, script.handshake, script.issued)
        final == script.final
        tries == IF script.fails >= RetryAttempts(max_retries)
                 THEN RetryAttempts(max_retries) ELSE script.fails + 1
        call(out, cache_after) ==
            [out |-> out, cache |-> cache_after, posts |-> tries,
             waits |-> BackoffWaits(script.fails, max_retries),
             session_id |-> session.session_id, handshakes |-> session.handshakes]
    IN IF url = ""
       THEN [out |-> Ok(McpPayload(None, Some("MCP URL is not configured. Set MCP_URL."))),
             cache |-> cache, posts |-> 0, waits |-> <<>>, session_id |-> None,
             handshakes |-> 0]
       ELSE IF script.fails >= RetryAttempts(max_retries)
       THEN call(Ok(McpPayload(None,
                        Some("Google Trends service is unreachable. Please try again later."))),
                 session.cache)
       ELSE IF final.kind = "exception"
       THEN call(Ok(McpPayload(None,
                        Some("Google Trends service error. Please try again later."))),
                 session.cache)
       ELSE IF final.kind = "status"
       THEN call(Ok(McpPayload(None,
                        Some("Google Trends service is unavailable. Please try again later."))),
                 IF final.code = 404
                 THEN {e \in session.cache : e.url # url} ELSE session.cache)
       ELSE IF final.kind = "unparsable"
       THEN call(Ok(McpPayload(None, Some("Invalid response from Google Trends service."))),
                 session.cache)
       ELSE call(OnMcpBody(final), session.cache)

TrendsPayload(items, error) == [trends |-> items, error |-> error]

\* get_google_trends_async, given how _call_mcp_tool_async ended
get_google_trends_async(out) ==
    IF out.raised # None THEN out
    ELSE LET payload == out.value[1]
         IN IF payload.error # None /\ payload.error # Some("")
            THEN Ok(TrendsPayload(<<>>, payload.error))
            ELSE IF payload.data[1].kind = "none"
            THEN Ok(TrendsPayload(<<>>, Some("No data from Google Trends.")))
            ELSE IF payload.data[1].kind \in {"list", "dict_trends"}
            THEN Ok(TrendsPayload(payload.data[1].items, None))
            ELSE IF payload.data[1].kind = "dict"
            THEN Ok(TrendsPayload(<<[kind |-> "dict", keyword |-> "", volume |-> ""]>>, None))
            ELSE Ok(TrendsPayload(<<>>, None))

\* get_google_trends: under a running loop the coroutine runs in a worker
\* thread and fut.result(timeout) waits for it
get_google_trends(out, in_loop, future_timeout) ==
    IF in_loop /\ future_timeout THEN Throw("TimeoutError")
    ELSE get_google_trends_async(out)

TrendLine(t) ==
    IF t.kind = "dict"
    THEN "- " \o t.keyword \o (IF t.volume # "" THEN " (volume: " \o t.volume \o ")" ELSE "")
    ELSE "- " \o t.keyword

\* _format_trends_result
_format_trends_result(payload) ==
    IF payload.error # None /\ payload.error # Some("")
    THEN "Trends error: " \o payload.error[1]
    ELSE IF payload.trends = <<>> THEN "No trending terms returned."
    ELSE LET shown == Prefix(payload.trends, 15)
         IN joinLines([i \in DOMAIN shown |-> TrendLine(shown[i])])

TrendsGeoCodes == {"US", "UK", "GB", "IN", "DE", "FR", "JP", "BR", "CA", "AU"}

\* the first two-letter word of the input
RECURSIVE FirstCode(_)
FirstCode(parts) ==
    IF parts = <<>> THEN None
    ELSE IF Len(Head(parts)) = 2 /\ isalpha(Head(parts)) THEN Some(Head(parts))
    ELSE FirstCode(Tail(parts))

\* the geo _google_trends_invoke passes on
TrendsGeo(geo_or_query) ==
    LET raw == strip(IF geo_or_query = "" THEN "US" ELSE geo_or_query)
        code == FirstCode(split(replace(upper(raw), ",", " ")))
    IN IF upper(raw) \in TrendsGeoCodes
       THEN (IF upper(raw) \in {"UK", "GB"} THEN "GB" ELSE upper(raw))
       ELSE IF code # None THEN code[1] ELSE "US"

\* _google_trends_invoke: the observation or the exception, with the geo
\* sent, the POSTs made and the cache left behind
_google_trends_invoke(cfg, cache, geo_or_query, script) ==
    LET call == _call_mcp_tool_async(cfg, cache, script, MCP_MAX_RETRIES)
        out == get_google_trends(call.out, script.in_loop, script.future_timeout)
    IN [raised |-> out.raised,
        value |-> IF out.raised # None THEN None ELSE Some(_format_trends_result(out.value[1])),
        geo |-> TrendsGeo(geo_or_query), posts |-> call.posts, cache |-> call.cache,
        waits |-> call.waits, session_id |-> call.session_id,
        handshakes |-> call.handshakes]

TrendsQueries == {"", "uk", "trends in India", "trends in UK", "de,fr", "worldwide"}

IdleTrends == [pc |-> "idle", geo_or_query |-> "", script |-> None, result |-> None,
               cache_before |-> {}]

(***************************************************************************)
(* The authentication middleware and the dependency the routes use.        *)
(***************************************************************************)
\* str.startswith
startswith(s, prefix) == Prefix(s, Len(prefix)) = prefix

public_paths ==
    <<"/", "/health", "/docs", "/openapi.json", "/redoc", "/auth/login", "/auth/register">>

\* AuthMiddleware._is_public_endpoint
_is_public_endpoint(path) ==
    \E i \in DOMAIN public_paths : startswith(path, public_paths[i])

\* the subjects that parse as a UUID
Uuids == {"u1", "u2"}

\* jwt.decode under the configured secret: the payload of a token that is
\* signed and not expired, nothing for any other token; a payload may lack
\* its subject or its email
JwtPayloads ==
    [good |-> Some([sub |-> Some("u1"), email |-> Some("u1@example.com")]),
     noemail |-> Some([sub |-> Some("u2"), email |-> None]),
     nosub |-> Some([sub |-> None, email |-> Some("u1@example.com")]),
     baduuid |-> Some([sub |-> Some("root"), email |-> Some("u1@example.com")])]

\* decode_access_token
decode_access_token(token) ==
    IF token \in DOMAIN JwtPayloads THEN JwtPayloads[token] ELSE None

\* verify_token
verify_token(token) == decode_access_token(token) # None

\* get_user_id_from_token
get_user_id_from_token(token) ==
    LET payload == decode_access_token(token)
    IN IF payload # None /\ payload[1].sub # None /\ payload[1].sub[1] \in Uuids
       THEN payload[1].sub
       ELSE None

\* get_email_from_token
get_email_from_token(token) ==
    LET payload == decode_access_token(token)
    IN IF payload # None THEN payload[1].email ELSE None

\* verify_supabase_token: the user, "Invalid token", or a failed call; every
\* failure comes back as an error message
SupabaseOutcomes == {"user", "invalid", "raise"}

verify_supabase_token(token, outcome) ==
    IF outcome = "user" THEN [user_data |-> Some(token), error |-> None]
    ELSE IF outcome = "invalid" THEN [user_data |-> None, error |-> Some("Invalid token")]
    ELSE [user_data |-> None, error |-> Some("Token verification failed")]

\* a response of the middleware itself
Unauthorized(detail) ==
    [call_next |-> FALSE, response |-> Some([status_code |-> 401, detail |-> detail]),
     state |-> None]

\* the request goes on to the route, with what the middleware put in its state
CallNext(state) == [call_next |-> TRUE, response |-> None, state |-> state]

\* AuthMiddleware.dispatch
dispatch(path, authorization, supabase) ==
    IF _is_public_endpoint(path) THEN CallNext(None)
    ELSE IF authorization = None \/ authorization = Some("")
    THEN Unauthorized("Missing authorization header")
    ELSE LET words == split(authorization[1])
         IN IF Len(words) # 2 \/ lower(words[1]) # "bearer"
            THEN Unauthorized("Invalid authorization header format. Expected: Bearer <token>")
            ELSE LET token == words[2]
                     user_id == get_user_id_from_token(token)
                     email == get_email_from_token(token)
                     verified == verify_supabase_token(token, supabase)
                 IN IF ~verify_token(token) THEN Unauthorized("Invalid or expired token")
                    ELSE IF user_id = None THEN Unauthorized("Invalid token payload")
                    ELSE CallNext(Some([user_id |-> user_id[1],
                                        email |-> IF email = None THEN "" ELSE email[1],
                                        token |-> token]))

\* get_current_user
get_current_user(state) ==
    IF state = None
    THEN Throw([status_code |-> 401, detail |-> "Not authenticated"])
    ELSE Ok(state[1])

RequestPaths ==
    {"/", "/health", "/docs", "/auth/login", "/auth/register", "/auth/me",
     "/auth/logout", "/chat/message", "/chat/conversations"}

AuthorizationHeaders ==
    {None, Some(""), Some("Bearer"), Some("Bearer good"), Some("bearer good"),
     Some("Bearer  noemail"), Some("Basic good"), Some("Bearer good again"),
     Some("Bearer expired"), Some("Bearer nosub"), Some("Bearer baduuid"), Some("good")}

IdleRequest ==
    [pc |-> "idle", path |-> "", authorization |-> None, result |-> None, user |-> None]

\* the turns that run side by side
Slots == {1, 2}

IdleTurn ==
    [pc |-> "idle", user_id |-> "", conversation_id |-> None, conv_id |-> 0,
     conversation_created |-> FALSE]

\* the worker threads and requests that fetch the agent binding
Threads == {1, 2}

\* one caller of get_agent (mode "blocking", on a worker thread of the
\* default executor) or of get_streaming_agent (mode "stream", on the event
\* loop): seen is what the test of the global read, built the modes this
\* caller ran _create_agent for, agent the id of the object returned
IdleThread == [pc |-> "idle", mode |-> "none", seen |-> 0, local |-> None,
               built |-> {}, agent |-> 0]

NoAgents == [blocking |-> 0, stream |-> 0]

\* the trends tool calls that run side by side
Tasks == {1, 2}

\* one call of _call_mcp_tool_async among several: the session id it goes on
\* with, the handshakes it made, whether it touched the session cache
\* without holding the lock, and how its tools/call POST was answered
IdleTask == [pc |-> "idle", session_id |-> None, new_id |-> None, handshakes |-> 0,
             unlocked |-> FALSE, status |-> 0]

\* one send turn on a conversation other turns write to as well: the ids of
\* the rows it inserted, the history it loaded and the reply of its engine
\* call, each absent until the step has run
IdleSend == [pc |-> "idle", content |-> "", user_msg |-> None,
             history |-> None, reply |-> None, assistant_msg |-> None,
             faulted |-> FALSE]

\* one run of stream_agent_async on its own
IdleRuntime == [pc |-> "idle", binding |-> None, events |-> <<>>, yielded |-> <<>>]

IdleRetry == [pc |-> "idle", value |-> "", faults |-> <<>>, result |-> None]
IdleTavily == [pc |-> "idle", query |-> "", remote |-> None, result |-> None]

InitAux ==
    /\ retry = IdleRetry
    /\ checks = {}
    /\ tavily = IdleTavily
    /\ trends = IdleTrends
    /\ _mcp_session_cache = {}
    /\ request = IdleRequest
    /\ turns = [t \in Slots |-> IdleTurn]
    /\ title_log = <<>>
    /\ runtime = IdleRuntime
    /\ threads = [t \in Threads |-> IdleThread]
    /\ agent_ids = NoAgents
    /\ tasks = [t \in Tasks |-> IdleTask]
    /\ _mcp_session_lock = None
    /\ sends = [t \in Slots |-> IdleSend]

Init ==
    /\ \E seed \in SeedStores :
          /\ conversations = seed.conversations
          /\ messages = seed.messages
    /\ req = [r \in Reqs |-> IdleReq]
    /\ settings \in ChatSettings
    /\ agent_executor = None
    /\ streaming_agent_executor = None
    /\ InitAux

Next ==
    \E r \in Reqs :
        \/ Send(r)
        \/ ResolveConversation(r)
        \/ CreateConversation(r)
        \/ PersistUserMessage(r)
        \/ LoadHistory(r)
        \/ InvokeAgent(r)
        \/ OpenStream(r)
        \/ StreamEvent(r)
        \/ EndStream(r)
        \/ PersistAssistantMessage(r)
        \/ UpdateTitle(r)
        \/ ListConversations(r)
        \/ FetchConversations(r)
        \/ GetMessages(r)
        \/ FetchConversation(r)
        \/ FetchMessages(r)

Spec == Init /\ [][Next]_vars

(***************************************************************************)
(* The read retry on its own: one wrapped read after another, each with a  *)
(* script that says which attempts raise and what.                         *)
(***************************************************************************)
ScriptLen == 3

RetryValues == {<<>>, <<"row">>}

\* faults[i] is None when the i-th call of fn returns, else the exception
FaultScripts == [1..ScriptLen -> {None} \cup {Some(e) : e \in Exceptions}]

chatVars == <<conversations, messages, req, settings, agent_executor, streaming_agent_executor>>

InitChatIdle ==
    /\ conversations = <<>>
    /\ messages = <<>>
    /\ req = [r \in Reqs |-> IdleReq]
    /\ settings \in ChatSettings
    /\ agent_executor = None
    /\ streaming_agent_executor = None

\* a read wrapped in _with_retry_on_disconnect
CallWithRetry ==
    /\ retry.pc = "idle"
    /\ \E value \in RetryValues, faults \in FaultScripts :
          retry' = [pc |-> "returned", value |-> value, faults |-> faults,
                    result |-> Some(_with_retry_on_disconnect(value, faults))]
    /\ UNCHANGED <<chatVars, checks, tavily, trends, _mcp_session_cache, request, turns, title_log, runtime, threads, agent_ids, tasks, _mcp_session_lock, sends>>

\* the caller goes on to its next read
RetryDone ==
    /\ retry.pc = "returned"
    /\ retry' = IdleRetry
    /\ UNCHANGED <<chatVars, checks, tavily, trends, _mcp_session_cache, request, turns, title_log, runtime, threads, agent_ids, tasks, _mcp_session_lock, sends>>

InitRetry == InitChatIdle /\ InitAux

NextRetry == CallWithRetry \/ RetryDone

SpecRetry == InitRetry /\ [][NextRetry]_vars

(***************************************************************************)
(* The tool registry on its own: the process settings, the two lazily      *)
(* built bindings and the availability checks made so far.                 *)
(***************************************************************************)
ConfigValues == {"", " ", "v", " v\n"}

ToolSettings ==
    [tavily_api_key : ConfigValues, mcp_url : ConfigValues, langchain_agents : BOOLEAN]

\* is_tavily_available() is called
CheckTavily ==
    /\ checks' = checks \cup {[adapter |-> TAVILY_TOOL_NAME, available |-> is_tavily_available(settings)]}
    /\ checks' # checks
    /\ UNCHANGED <<storeVars, req, agentVars, retry, tavily, trends, _mcp_session_cache, request, turns, title_log, runtime, threads, agent_ids, tasks, _mcp_session_lock, sends>>

\* is_mcp_available() is called
CheckMcp ==
    /\ checks' = checks \cup {[adapter |-> MCP_TOOL_NAME, available |-> is_mcp_available(settings)]}
    /\ checks' # checks
    /\ UNCHANGED <<storeVars, req, agentVars, retry, tavily, trends, _mcp_session_cache, request, turns, title_log, runtime, threads, agent_ids, tasks, _mcp_session_lock, sends>>

\* get_agent() is called
GetAgent ==
    /\ agent_executor' = get_agent(agent_executor, settings, FALSE)
    /\ agent_executor' # agent_executor
    /\ UNCHANGED <<storeVars, req, settings, streaming_agent_executor, auxVars>>

\* get_streaming_agent() is called
GetStreamingAgent ==
    /\ streaming_agent_executor' = get_agent(streaming_agent_executor, settings, TRUE)
    /\ streaming_agent_executor' # streaming_agent_executor
    /\ UNCHANGED <<storeVars, req, settings, agent_executor, auxVars>>

InitTools ==
    /\ conversations = <<>>
    /\ messages = <<>>
    /\ req = [r \in Reqs |-> IdleReq]
    /\ settings \in ToolSettings
    /\ agent_executor = None
    /\ streaming_agent_executor = None
    /\ InitAux

NextTools == CheckTavily \/ CheckMcp \/ GetAgent \/ GetStreamingAgent

SpecTools == InitTools /\ [][NextTools]_vars

(***************************************************************************)
(* The search tool on its own: one invoke after another, each with a query *)
(* and with what the remote call does.                                     *)
(***************************************************************************)
\* the reasoning loop calls the tool
TavilyInvoke ==
    /\ tavily.pc = "idle"
    /\ \E query \in TavilyQueries, remote \in TavilyRemotes :
          tavily' = [pc |-> "returned", query |-> query, remote |-> Some(remote),
                     result |-> Some(_tavily_invoke(settings, query, remote))]
    /\ UNCHANGED <<chatVars, retry, checks, trends, _mcp_session_cache, request, turns, title_log, runtime, threads, agent_ids, tasks, _mcp_session_lock, sends>>

\* the observation goes back to the loop
TavilyDone ==
    /\ tavily.pc = "returned"
    /\ tavily' = IdleTavily
    /\ UNCHANGED <<chatVars, retry, checks, trends, _mcp_session_cache, request, turns, title_log, runtime, threads, agent_ids, tasks, _mcp_session_lock, sends>>

InitTavily == InitChatIdle /\ InitAux

NextTavily == TavilyInvoke \/ TavilyDone

SpecTavily == InitTavily /\ [][NextTavily]_vars

(***************************************************************************)
(* The trends tool on its own: one invoke after another, each with an      *)
(* input and with what the network does; the session cache lives on.       *)
(***************************************************************************)
McpSettings ==
    { [tavily_api_key |-> "", mcp_url |-> u, langchain_agents |-> TRUE] :
        u \in {"", "http://mcp:8080", "http://mcp:8080/"} }

\* the reasoning loop calls the tool
TrendsInvoke ==
    /\ trends.pc = "idle"
    /\ \E geo_or_query \in TrendsQueries, script \in McpScripts :
          LET result == _google_trends_invoke(settings, _mcp_session_cache, geo_or_query, script)
          IN /\ trends' = [pc |-> "returned", geo_or_query |-> geo_or_query,
                           script |-> Some(script), result |-> Some(result),
                           cache_before |-> _mcp_session_cache]
             /\ _mcp_session_cache' = result.cache
    /\ UNCHANGED <<chatVars, retry, checks, tavily, request, turns, title_log, runtime, threads, agent_ids, tasks, _mcp_session_lock, sends>>

\* the observation goes back to the loop
TrendsDone ==
    /\ trends.pc = "returned"
    /\ trends' = IdleTrends
    /\ UNCHANGED <<chatVars, retry, checks, tavily, _mcp_session_cache, request, turns, title_log, runtime, threads, agent_ids, tasks, _mcp_session_lock, sends>>

InitTrends ==
    /\ conversations = <<>>
    /\ messages = <<>>
    /\ req = [r \in Reqs |-> IdleReq]
    /\ settings \in McpSettings
    /\ agent_executor = None
    /\ streaming_agent_executor = None
    /\ InitAux

NextTrends == TrendsInvoke \/ TrendsDone

SpecTrends == InitTrends /\ [][NextTrends]_vars

(***************************************************************************)
(* The middleware on its own: one request after another, each with a path, *)
(* an Authorization header and an answer of the identity provider.         *)
(***************************************************************************)
\* the middleware runs and, when it lets the request through, the route's
\* dependency get_current_user reads the request state
Dispatch ==
    /\ request.pc = "idle"
    /\ \E path \in RequestPaths, authorization \in AuthorizationHeaders,
          supabase \in SupabaseOutcomes :
          LET result == dispatch(path, authorization, supabase)
          IN request' = [pc |-> "dispatched", path |-> path,
                         authorization |-> authorization, result |-> Some(result),
                         user |-> IF result.call_next
                                  THEN Some(get_current_user(result.state))
                                  ELSE None]
    /\ UNCHANGED <<chatVars, retry, checks, tavily, trends, _mcp_session_cache, turns, title_log, runtime, threads, agent_ids, tasks, _mcp_session_lock, sends>>

\* the response is sent
Respond ==
    /\ request.pc = "dispatched"
    /\ request' = IdleRequest
    /\ UNCHANGED <<chatVars, retry, checks, tavily, trends, _mcp_session_cache, turns, title_log, runtime, threads, agent_ids, tasks, _mcp_session_lock, sends>>

InitAuth == InitChatIdle /\ InitAux

NextAuth == Dispatch \/ Respond

SpecAuth == InitAuth /\ [][NextAuth]_vars

(***************************************************************************)
(* The orchestrator's stream loop against a runtime stream that can fail.  *)
(* stream_agent_async catches what the engine raises while it streams; what *)
(* it does before its first event (building the binding, converting the    *)
(* history) is outside its try.  The loop of send_message_stream catches   *)
(* any exception of the stream it consumes, at whatever point; here the     *)
(* stream may raise before its first event and after any number of them.    *)
(***************************************************************************)
\* the runtime stream raises: the except branch runs, then the code after the
\* loop
RuntimeRaises(r) ==
    /\ req[r].pc \in {"stream_open", "stream"}
    /\ req' = [req EXCEPT ![r] =
                  AfterStream(OnStreamException([req[r] EXCEPT !.engine = "stream_raise"]))]
    /\ UNCHANGED <<storeVars, agentVars, auxVars>>

NextStreamLoop == Next \/ \E r \in Reqs : RuntimeRaises(r)

SpecStreamLoop == Init /\ [][NextStreamLoop]_vars

(***************************************************************************)
(* Send turns side by side and one after another, reduced to what they do  *)
(* to the conversation row: resolve or create it, then (user message,      *)
(* engine and assistant message having worked or not) write its title.     *)
(***************************************************************************)
MaxConversations == 2

titleVars == <<messages, req, settings, agentVars, retry, checks, tavily, trends,
               _mcp_session_cache, request, runtime, threads, agent_ids, tasks, _mcp_session_lock, sends>>

\* a send arrives
TurnSend(t) ==
    /\ turns[t].pc = "idle"
    /\ \E user_id \in Users, conversation_id \in ConversationIds :
          turns' = [turns EXCEPT ![t] = [IdleTurn EXCEPT !.pc = "resolve",
                                                         !.user_id = user_id,
                                                         !.conversation_id = conversation_id]]
    /\ UNCHANGED <<conversations, title_log, titleVars>>

\* conversation_id is not None: conv_repo.get_by_id, not found ends the turn
TurnResolve(t) ==
    /\ turns[t].pc = "resolve"
    /\ turns[t].conversation_id # None
    /\ LET conv == Conversation_get_by_id(turns[t].conversation_id[1], turns[t].user_id)
       IN turns' = [turns EXCEPT ![t] =
                       IF conv = None THEN [@ EXCEPT !.pc = "done"]
                       ELSE [@ EXCEPT !.pc = "reply", !.conv_id = conv[1].id,
                                      !.conversation_created = FALSE]]
    /\ UNCHANGED <<conversations, title_log, titleVars>>

\* conversation_id is None: conv_repo.create(user_id, title=None)
TurnCreate(t) ==
    /\ turns[t].pc = "resolve"
    /\ turns[t].conversation_id = None
    /\ Len(conversations) < MaxConversations
    /\ \E o \in InsertOutcomes :
          /\ conversations' =
                IF o = "ok"
                THEN Append(conversations, [user_id |-> turns[t].user_id, title |-> None])
                ELSE conversations
          /\ turns' = [turns EXCEPT ![t] =
                IF o = "ok"
                THEN [@ EXCEPT !.pc = "reply", !.conv_id = Len(conversations) + 1,
                               !.conversation_created = TRUE]
                ELSE [@ EXCEPT !.pc = "done"]]
    /\ UNCHANGED <<title_log, titleVars>>

\* the user message, the engine call and the assistant message: they work
\* and the turn goes on to its title step, or one of them raises
TurnReply(t) ==
    /\ turns[t].pc = "reply"
    /\ \E worked \in BOOLEAN :
          turns' = [turns EXCEPT ![t] =
                       IF worked /\ WritesTitle(turns[t]) THEN [@ EXCEPT !.pc = "title"]
                       ELSE [@ EXCEPT !.pc = "done"]]
    /\ UNCHANGED <<conversations, title_log, titleVars>>

\* conv_repo.update(conv_id, user_id, title=title)
TurnTitle(t) ==
    /\ turns[t].pc = "title"
    /\ \E o \in InsertOutcomes :
          /\ conversations' =
                IF o = "ok"
                THEN Conversation_update(turns[t].conv_id, turns[t].user_id, Title("Hello"))
                ELSE conversations
          /\ title_log' = IF o = "ok" THEN Append(title_log, turns[t].conv_id) ELSE title_log
    /\ turns' = [turns EXCEPT ![t] = [@ EXCEPT !.pc = "done"]]
    /\ UNCHANGED titleVars

\* the turn has answered; its slot takes the next send
TurnEnd(t) ==
    /\ turns[t].pc = "done"
    /\ turns' = [turns EXCEPT ![t] = IdleTurn]
    /\ UNCHANGED <<conversations, title_log, titleVars>>

InitTitle == InitChatIdle /\ InitAux

NextTitle ==
    \E t \in Slots :
        \/ TurnSend(t)
        \/ TurnResolve(t)
        \/ TurnCreate(t)
        \/ TurnReply(t)
        \/ TurnTitle(t)
        \/ TurnEnd(t)

SpecTitle == InitTitle /\ [][NextTitle]_vars

(***************************************************************************)
(* The streaming runtime on its own: stream_agent_async against the engine *)
(* events of one run, with what it yields for them.                        *)
(***************************************************************************)
\* agent = get_streaming_agent()
RuntimeOpen ==
    /\ runtime.pc = "idle"
    /\ streaming_agent_executor' = get_agent(streaming_agent_executor, settings, TRUE)
    /\ runtime' = [IdleRuntime EXCEPT !.pc = "stream",
                                      !.binding = streaming_agent_executor']
    /\ UNCHANGED <<storeVars, req, settings, agent_executor, retry, checks, tavily, trends,
                   _mcp_session_cache, request, turns, title_log, threads, agent_ids, tasks, _mcp_session_lock, sends>>

\* one engine event; an exception ends the run after the failure token
RuntimeEvent ==
    /\ runtime.pc = "stream"
    /\ Len(runtime.events) < MaxEvents
    /\ \E e \in StreamEngineEvents(runtime.binding[1]) :
          runtime' = [runtime EXCEPT
                         !.pc = IF e.kind = "raise" THEN "done" ELSE @,
                         !.events = Append(@, e),
                         !.yielded = @ \o stream_agent_yield(runtime.binding[1], e)]
    /\ UNCHANGED <<storeVars, req, agentVars, retry, checks, tavily, trends,
                   _mcp_session_cache, request, turns, title_log, threads, agent_ids, tasks, _mcp_session_lock, sends>>

\* the engine's stream is exhausted
RuntimeEnd ==
    /\ runtime.pc = "stream"
    /\ runtime' = [runtime EXCEPT !.pc = "done"]
    /\ UNCHANGED <<storeVars, req, agentVars, retry, checks, tavily, trends,
                   _mcp_session_cache, request, turns, title_log, threads, agent_ids, tasks, _mcp_session_lock, sends>>

RuntimeNext ==
    /\ runtime.pc = "done"
    /\ runtime' = IdleRuntime
    /\ UNCHANGED <<storeVars, req, agentVars, retry, checks, tavily, trends,
                   _mcp_session_cache, request, turns, title_log, threads, agent_ids, tasks, _mcp_session_lock, sends>>

InitRuntime ==
    /\ conversations = <<>>
    /\ messages = <<>>
    /\ req = [r \in Reqs |-> IdleReq]
    /\ settings \in ChatSettings
    /\ agent_executor = None
    /\ streaming_agent_executor = None
    /\ InitAux

NextRuntime == RuntimeOpen \/ RuntimeEvent \/ RuntimeEnd \/ RuntimeNext

SpecRuntime == InitRuntime /\ [][NextRuntime]_vars

(***************************************************************************)
(* The lazy singletons under concurrent first use.  invoke_agent_async     *)
(* runs invoke_agent, and with it get_agent, on a worker thread of the     *)
(* default executor: the test of the global, _create_agent, the store and  *)
(* the read for the return are separate steps of a thread and interleave   *)
(* with the steps of other threads.  get_streaming_agent is called on the  *)
(* event loop and has no suspension point: it runs as one step.            *)
(***************************************************************************)
\* a request reaches its call of the agent
AgentCall(t) ==
    /\ threads[t].pc = "idle"
    /\ \E mode \in {"blocking", "stream"} :
          threads' = [threads EXCEPT ![t] = [@ EXCEPT !.pc = "called", !.mode = mode,
                                                      !.seen = 0, !.local = None,
                                                      !.agent = 0]]
    /\ UNCHANGED <<chatVars, retry, checks, tavily, trends, _mcp_session_cache, request,
                   turns, title_log, runtime, tasks, _mcp_session_lock, sends, agent_ids>>

\* get_agent: if _agent_executor is None
GetAgentTest(t) ==
    /\ threads[t].pc = "called"
    /\ threads[t].mode = "blocking"
    /\ threads' = [threads EXCEPT ![t] =
                      [@ EXCEPT !.pc = IF agent_executor = None THEN "create" ELSE "return",
                                !.seen = agent_ids.blocking]]
    /\ UNCHANGED <<chatVars, retry, checks, tavily, trends, _mcp_session_cache, request,
                   turns, title_log, runtime, tasks, _mcp_session_lock, sends, agent_ids>>

\* get_agent: _create_agent(streaming=False) runs
GetAgentCreate(t) ==
    /\ threads[t].pc = "create"
    /\ threads' = [threads EXCEPT ![t] =
                      [@ EXCEPT !.pc = "assign",
                                !.local = Some(_create_agent(settings, FALSE)),
                                !.built = @ \cup {"blocking"}]]
    /\ UNCHANGED <<chatVars, retry, checks, tavily, trends, _mcp_session_cache, request,
                   turns, title_log, runtime, tasks, _mcp_session_lock, sends, agent_ids>>

\* get_agent: _agent_executor = (the object just built)
GetAgentAssign(t) ==
    /\ threads[t].pc = "assign"
    /\ agent_executor' = threads[t].local
    /\ agent_ids' = [agent_ids EXCEPT !.blocking = t]
    /\ threads' = [threads EXCEPT ![t] = [@ EXCEPT !.pc = "return"]]
    /\ UNCHANGED <<storeVars, req, settings, streaming_agent_executor, retry, checks, tavily, trends, _mcp_session_cache, request,
                   turns, title_log, runtime, tasks, _mcp_session_lock, sends>>

\* get_agent: return _agent_executor
GetAgentReturn(t) ==
    /\ threads[t].pc = "return"
    /\ threads' = [threads EXCEPT ![t] =
                      [@ EXCEPT !.pc = "returned", !.agent = agent_ids.blocking]]
    /\ UNCHANGED <<chatVars, retry, checks, tavily, trends, _mcp_session_cache, request,
                   turns, title_log, runtime, tasks, _mcp_session_lock, sends, agent_ids>>

\* get_streaming_agent, whole
GetStreamingAgentCall(t) ==
    /\ threads[t].pc = "called"
    /\ threads[t].mode = "stream"
    /\ streaming_agent_executor' = get_agent(streaming_agent_executor, settings, TRUE)
    /\ agent_ids' = [agent_ids EXCEPT
                        !.stream = IF streaming_agent_executor = None THEN t ELSE @]
    /\ threads' = [threads EXCEPT ![t] =
                      [@ EXCEPT !.pc = "returned",
                                !.seen = agent_ids.stream,
                                !.built = IF streaming_agent_executor = None
                                          THEN @ \cup {"stream"} ELSE @,
                                !.agent = agent_ids'.stream]]
    /\ UNCHANGED <<storeVars, req, settings, agent_executor, retry, checks, tavily, trends, _mcp_session_cache, request,
                   turns, title_log, runtime, tasks, _mcp_session_lock, sends>>

InitSingleton ==
    /\ conversations = <<>>
    /\ messages = <<>>
    /\ req = [r \in Reqs |-> IdleReq]
    /\ settings \in ChatSettings
    /\ agent_executor = None
    /\ streaming_agent_executor = None
    /\ InitAux

NextSingleton ==
    \E t \in Threads :
        \/ AgentCall(t)
        \/ GetAgentTest(t)
        \/ GetAgentCreate(t)
        \/ GetAgentAssign(t)
        \/ GetAgentReturn(t)
        \/ GetStreamingAgentCall(t)

SpecSingleton == InitSingleton /\ [][NextSingleton]_vars

(***************************************************************************)
(* The session cache under concurrent tool calls.  Every call of the       *)
(* trends tool runs _call_mcp_tool_async in an event loop of its own       *)
(* (get_google_trends), so calls interleave at every step; the lock is     *)
(* taken and released around single accesses of the cache.                 *)
(***************************************************************************)
\* _call_mcp_tool_async is entered; without an endpoint it returns at once
TaskCall(t) ==
    /\ tasks[t].pc = "idle"
    /\ tasks' = [tasks EXCEPT ![t] =
                    [@ EXCEPT !.pc = IF _mcp_endpoint(settings) = "" THEN "done" ELSE "ensure"]]
    /\ UNCHANGED <<chatVars, retry, checks, tavily, trends, request, turns, title_log,
                   runtime, threads, agent_ids, sends, _mcp_session_cache, _mcp_session_lock>>

\* _ensure_mcp_session: async with _mcp_session_lock
EnsureAcquire(t) ==
    /\ tasks[t].pc = "ensure"
    /\ _mcp_session_lock = None
    /\ _mcp_session_lock' = Some(t)
    /\ tasks' = [tasks EXCEPT ![t] = [@ EXCEPT !.pc = "ensure_read"]]
    /\ UNCHANGED <<chatVars, retry, checks, tavily, trends, request, turns, title_log,
                   runtime, threads, agent_ids, sends, _mcp_session_cache>>

\* _ensure_mcp_session: the cached id is returned, or the block is left
\* without one; either way the lock is released
EnsureRead(t) ==
    /\ tasks[t].pc = "ensure_read"
    /\ LET url == _mcp_endpoint(settings)
       IN tasks' = [tasks EXCEPT ![t] =
                       IF Cached(_mcp_session_cache, url)
                       THEN [@ EXCEPT !.pc = "post",
                                      !.session_id =
                                          Some((CHOOSE e \in _mcp_session_cache :
                                                    e.url = url).session_id)]
                       ELSE [@ EXCEPT !.pc = "handshake"]]
    /\ _mcp_session_lock' = None
    /\ UNCHANGED <<chatVars, retry, checks, tavily, trends, request, turns, title_log,
                   runtime, threads, agent_ids, sends, _mcp_session_cache>>

\* _ensure_mcp_session: the initialize POST and what follows from its answer
Handshake(t) ==
    /\ tasks[t].pc = "handshake"
    /\ \E handshake \in HandshakeOutcomes :
          tasks' = [tasks EXCEPT ![t] =
                       IF handshake = "session"
                       THEN [@ EXCEPT !.pc = "store", !.handshakes = @ + 1,
                                      !.new_id = Some(SessionIds[t])]
                       ELSE [@ EXCEPT !.pc = "post", !.handshakes = @ + 1]]
    /\ UNCHANGED <<chatVars, retry, checks, tavily, trends, request, turns, title_log,
                   runtime, threads, agent_ids, sends, _mcp_session_cache, _mcp_session_lock>>

\* _ensure_mcp_session: async with _mcp_session_lock, second time
StoreAcquire(t) ==
    /\ tasks[t].pc = "store"
    /\ _mcp_session_lock = None
    /\ _mcp_session_lock' = Some(t)
    /\ tasks' = [tasks EXCEPT ![t] = [@ EXCEPT !.pc = "store_write"]]
    /\ UNCHANGED <<chatVars, retry, checks, tavily, trends, request, turns, title_log,
                   runtime, threads, agent_ids, sends, _mcp_session_cache>>

\* _ensure_mcp_session: _mcp_session_cache[url] = session_id
StoreWrite(t) ==
    /\ tasks[t].pc = "store_write"
    /\ LET url == _mcp_endpoint(settings)
       IN _mcp_session_cache' =
              {e \in _mcp_session_cache : e.url # url}
                  \cup {[url |-> url, session_id |-> tasks[t].new_id[1]]}
    /\ _mcp_session_lock' = None
    /\ tasks' = [tasks EXCEPT ![t] = [@ EXCEPT !.pc = "post", !.session_id = tasks[t].new_id]]
    /\ UNCHANGED <<chatVars, retry, checks, tavily, trends, request, turns, title_log,
                   runtime, threads, agent_ids, sends>>

\* the tools/call POST is answered; on 404 the cache is tested for the
\* endpoint before the lock is taken
ToolsCall(t) ==
    /\ tasks[t].pc = "post"
    /\ \E code \in {200, 404, 500} :
          tasks' = [tasks EXCEPT ![t] =
                       IF code = 404
                       THEN [@ EXCEPT !.status = code, !.unlocked = TRUE,
                                      !.pc = IF Cached(_mcp_session_cache,
                                                       _mcp_endpoint(settings))
                                             THEN "pop" ELSE "done"]
                       ELSE [@ EXCEPT !.status = code, !.pc = "done"]]
    /\ UNCHANGED <<chatVars, retry, checks, tavily, trends, request, turns, title_log,
                   runtime, threads, agent_ids, sends, _mcp_session_cache, _mcp_session_lock>>

\* _call_mcp_tool_async on 404: async with _mcp_session_lock
PopAcquire(t) ==
    /\ tasks[t].pc = "pop"
    /\ _mcp_session_lock = None
    /\ _mcp_session_lock' = Some(t)
    /\ tasks' = [tasks EXCEPT ![t] = [@ EXCEPT !.pc = "pop_write"]]
    /\ UNCHANGED <<chatVars, retry, checks, tavily, trends, request, turns, title_log,
                   runtime, threads, agent_ids, sends, _mcp_session_cache>>

\* _call_mcp_tool_async on 404: _mcp_session_cache.pop(url, None)
PopWrite(t) ==
    /\ tasks[t].pc = "pop_write"
    /\ _mcp_session_cache' =
          {e \in _mcp_session_cache : e.url # _mcp_endpoint(settings)}
    /\ _mcp_session_lock' = None
    /\ tasks' = [tasks EXCEPT ![t] = [@ EXCEPT !.pc = "done"]]
    /\ UNCHANGED <<chatVars, retry, checks, tavily, trends, request, turns, title_log,
                   runtime, threads, agent_ids, sends>>

InitSession ==
    /\ conversations = <<>>
    /\ messages = <<>>
    /\ req = [r \in Reqs |-> IdleReq]
    /\ settings \in McpSettings
    /\ agent_executor = None
    /\ streaming_agent_executor = None
    /\ InitAux

NextSession ==
    \E t \in Tasks :
        \/ TaskCall(t)
        \/ EnsureAcquire(t)
        \/ EnsureRead(t)
        \/ Handshake(t)
        \/ StoreAcquire(t)
        \/ StoreWrite(t)
        \/ ToolsCall(t)
        \/ PopAcquire(t)
        \/ PopWrite(t)

SpecSession == InitSession /\ [][NextSession]_vars

(***************************************************************************)
(* A streaming turn whose consumer goes away.  When the client disconnects *)
(* the response task is cancelled or the abandoned generators are closed:  *)
(* CancelledError is raised at the await of the next runtime event, or     *)
(* GeneratorExit at the yield the orchestrator is suspended on.  Either    *)
(* arrives inside the try block of the loop.                               *)
(***************************************************************************)
\* what ends an abandoned generator
StopSignals == {"CancelledError", "GeneratorExit"}

\* variant of the handler test in which the handler is a bare except
CaughtByExceptException_bare(cls) == TRUE

\* whether "except Exception" catches: not the BaseException classes
CaughtByExceptException(cls) ==
    cls \notin {"CancelledError", "GeneratorExit", "KeyboardInterrupt", "SystemExit"}

\* the consumer stops iterating while the loop is suspended
ConsumerStops(r) ==
    /\ req[r].pc \in {"stream_open", "stream"}
    /\ \E cls \in StopSignals :
          req' = [req EXCEPT ![r] =
                     IF CaughtByExceptException(cls)
                     THEN AfterStream(OnStreamException(
                              [req[r] EXCEPT !.engine = "stream_raise", !.raised = cls]))
                     ELSE [req[r] EXCEPT !.pc = "cancelled", !.raised = cls,
                                         !.closed = TRUE]]
    /\ UNCHANGED <<storeVars, agentVars, auxVars>>

NextCancel == Next \/ \E r \in Reqs : ConsumerStops(r)

SpecCancel == Init /\ [][NextCancel]_vars

(***************************************************************************)
(* Two sends to one conversation, side by side.  A turn is the user        *)
(* insert, the history read, the engine call and the assistant insert of   *)
(* send_message / send_message_stream.  The storage calls are calls of the *)
(* synchronous client and only the engine call is awaited, so one event    *)
(* loop switches turns at the engine call; worker processes on the same    *)
(* database switch anywhere.  The steps interleave in every way here,      *)
(* which covers both.  The conversation is there already and belongs to    *)
(* the caller.                                                             *)
(***************************************************************************)
\* the conversation before the two sends: no message yet, one exchange, or
\* one row short of the history window
SendSeeds ==
    { EarlierConversation(0), EarlierConversation(2),
      EarlierConversation(DEFAULT_AGENT_HISTORY_LIMIT - 1) }

SendContents == {"Hello", "And then?"}
Replies == {"Hi there", "Sure."}

\* variant of the insert in which a row replaces the newest row of its role
\* when that row is the last of the table
InsertRow_replacing_newest(rows, row) ==
    IF rows # <<>> /\ rows[Len(rows)].role = row.role
    THEN [rows EXCEPT ![Len(rows)] = [row EXCEPT !.id = Len(rows)]]
    ELSE Append(rows, row)

\* Message.create: the table gains the row
InsertRow(rows, row) == Append(rows, row)

\* variant of the step order: the engine is called right after the user
\* insert
AfterUserMessage_engine == "engine"

\* what follows the user insert: the history read
AfterUserMessage == "history"

\* a send for conversation 1 arrives and has passed its checks
SendBegin(t) ==
    /\ sends[t].pc = "idle"
    /\ \E content \in SendContents :
          sends' = [sends EXCEPT ![t] = [IdleSend EXCEPT !.pc = "user", !.content = content]]
    /\ UNCHANGED <<storeVars, req, agentVars, retry, checks, tavily, trends, _mcp_session_cache,
                   request, turns, title_log, runtime, threads, agent_ids, tasks,
                   _mcp_session_lock>>

\* msg_repo.create(role="user")
SendPersistUser(t) ==
    /\ sends[t].pc = "user"
    /\ \E o \in InsertOutcomes :
          LET row == NewMessage(1, conversations[1].user_id, "user", sends[t].content, None)
          IN /\ messages' = IF o = "ok" THEN InsertRow(messages, row) ELSE messages
             /\ sends' = [sends EXCEPT ![t] =
                   IF o = "ok"
                   THEN [@ EXCEPT !.pc = AfterUserMessage,
                                  !.user_msg = Some(Len(messages'))]
                   ELSE [@ EXCEPT !.pc = "done", !.faulted = TRUE]]
    /\ UNCHANGED <<conversations, req, agentVars, retry, checks, tavily, trends, _mcp_session_cache,
                   request, turns, title_log, runtime, threads, agent_ids, tasks,
                   _mcp_session_lock>>

\* msg_repo.get_conversation_history_for_agent
SendLoadHistory(t) ==
    /\ sends[t].pc = "history"
    /\ \E o \in SelectOutcomes :
          sends' = [sends EXCEPT ![t] =
              IF o = "ok"
              THEN [@ EXCEPT !.pc = "engine",
                             !.history = Some(get_conversation_history_for_agent(
                                             1, conversations[1].user_id,
                                             DEFAULT_AGENT_HISTORY_LIMIT))]
              ELSE [@ EXCEPT !.pc = "done", !.faulted = TRUE]]
    /\ UNCHANGED <<storeVars, req, agentVars, retry, checks, tavily, trends, _mcp_session_cache,
                   request, turns, title_log, runtime, threads, agent_ids, tasks,
                   _mcp_session_lock>>

\* invoke_agent_async returns, or the runtime's stream is exhausted
SendEngine(t) ==
    /\ sends[t].pc = "engine"
    /\ \E reply \in Replies :
          sends' = [sends EXCEPT ![t] = [@ EXCEPT !.pc = "assistant", !.reply = Some(reply)]]
    /\ UNCHANGED <<storeVars, req, agentVars, retry, checks, tavily, trends, _mcp_session_cache,
                   request, turns, title_log, runtime, threads, agent_ids, tasks,
                   _mcp_session_lock>>

\* msg_repo.create(role="assistant")
SendPersistAssistant(t) ==
    /\ sends[t].pc = "assistant"
    /\ \E o \in InsertOutcomes :
          LET row == NewMessage(1, conversations[1].user_id, "assistant",
                                sends[t].reply[1], None)
          IN /\ messages' = IF o = "ok" THEN InsertRow(messages, row) ELSE messages
             /\ sends' = [sends EXCEPT ![t] =
                   IF o = "ok"
                   THEN [@ EXCEPT !.pc = "done", !.assistant_msg = Some(Len(messages'))]
                   ELSE [@ EXCEPT !.pc = "done", !.faulted = TRUE]]
    /\ UNCHANGED <<conversations, req, agentVars, retry, checks, tavily, trends, _mcp_session_cache,
                   request, turns, title_log, runtime, threads, agent_ids, tasks,
                   _mcp_session_lock>>

InitSends ==
    /\ \E seed \in SendSeeds :
          /\ conversations = seed.conversations
          /\ messages = seed.messages
    /\ req = [r \in Reqs |-> IdleReq]
    /\ settings \in ChatSettings
    /\ agent_executor = None
    /\ streaming_agent_executor = None
    /\ InitAux

NextSends ==
    \E t \in Slots :
        \/ SendBegin(t)
        \/ SendPersistUser(t)
        \/ SendLoadHistory(t)
        \/ SendEngine(t)
        \/ SendPersistAssistant(t)

SpecSends == InitSends /\ [][NextSends]_vars

(***************************************************************************)
(* Properties of the chat specification.                                   *)
(***************************************************************************)
SendModes == {"blocking", "stream"}

SendDone(r) == req[r].pc = "done" /\ req[r].mode \in SendModes

\* some storage call of the request did not answer with its row
StorageFault(r) == \E i \in DOMAIN req[r].ops : req[r].ops[i].res # "ok"

\* how many calls of kind op answered the request with a row
OkOps(r, op) ==
    Cardinality({i \in DOMAIN req[r].ops : req[r].ops[i].op = op /\ req[r].ops[i].res = "ok"})

WriteOps == {"conversations.insert", "conversations.update",
             "messages.insert.user", "messages.insert.assistant"}

NoWrites(r) == \A i \in DOMAIN req[r].ops : req[r].ops[i].op \notin WriteOps

MessagesOf(conversation_id) ==
    SelectSeq(messages, LAMBDA m : m.conversation_id = conversation_id)

Stored(row) == \E i \in DOMAIN messages : messages[i] = row

\* the request names a conversation that is absent or owned by someone else
NotOwned(r) ==
    /\ req[r].conversation_id # None
    /\ ~(/\ req[r].conversation_id[1] \in DOMAIN conversations
         /\ conversations[req[r].conversation_id[1]].user_id = req[r].user_id)

FailedAs(r, e) == req[r].raised = "ValueError" /\ req[r].detail = e

\* C1: a send (blocking or streaming) of a message that is non-empty after
\* trimming, with a credential, no conversation id and no storage fault
\* creates one conversation of the caller, leaves exactly two messages in it
\* (user, then assistant), and sets the title to the first 200 characters of
\* the trimmed message, followed by "..." iff the trimmed message is longer.
C1_NewConversationTurn ==
    \A r \in Reqs :
        LET rq == req[r]
            text == strip(rq.content_in)
        IN (/\ SendDone(r) /\ rq.access_token # "" /\ text # ""
            /\ rq.conversation_id = None /\ ~StorageFault(r))
           => /\ rq.raised = "none"
              /\ rq.conversation_created
              /\ OkOps(r, "conversations.insert") = 1
              /\ rq.conv_id \in DOMAIN conversations
              /\ conversations[rq.conv_id].user_id = rq.user_id
              /\ LET rows == MessagesOf(rq.conv_id)
                 IN /\ Len(rows) = 2
                    /\ rows[1].role = "user" /\ rows[1].content = text
                    /\ rows[2].role = "assistant"
                    /\ rows[2].id = rq.assistant_msg[1].id
              /\ conversations[rq.conv_id].title =
                    Some(IF Len(text) > TitleMaxLen
                         THEN SubSeq(text, 1, TitleMaxLen) \o "..."
                         ELSE text)

\* C1 witness: a streaming send of a message longer than 200 characters has
\* ended in a new conversation whose title was cut.
C1_Witness ==
    \E r \in Reqs :
        /\ SendDone(r) /\ req[r].mode = "stream" /\ req[r].conversation_id = None
        /\ ~StorageFault(r) /\ req[r].conversation_created
        /\ Len(strip(req[r].content_in)) > TitleMaxLen
        /\ Len(MessagesOf(req[r].conv_id)) = 2
        /\ conversations[req[r].conv_id].title # None

\* the contents of the chunk frames, in order
RECURSIVE ChunkText(_)
ChunkText(frames) ==
    IF frames = <<>> THEN ""
    ELSE (IF Head(frames).type = "chunk" THEN Head(frames).content ELSE "")
         \o ChunkText(Tail(frames))

ChunkFrames(frames) == SelectSeq(frames, LAMBDA f : f.type = "chunk")

DoneFrame(r) ==
    /\ req[r].mode = "stream" /\ req[r].frames # <<>>
    /\ req[r].frames[Len(req[r].frames)].type = "done"

DoneMessage(r) == req[r].frames[Len(req[r].frames)].message

Terminal(f) == f.type \in {"done", "error"}

\* C3 as claimed: a streaming send emits exactly one terminal frame (done or
\* error), and it is the last frame of the stream, whatever the outcome.
C3_OneTerminalFrameLast ==
    \A r \in Reqs :
        req[r].mode = "stream"
        => /\ \A i \in 1..(Len(req[r].frames) - 1) : ~Terminal(req[r].frames[i])
           /\ req[r].closed
                => /\ req[r].frames # <<>>
                   /\ Terminal(req[r].frames[Len(req[r].frames)])
           /\ ~req[r].closed => \A i \in DOMAIN req[r].frames : ~Terminal(req[r].frames[i])

\* C4 as claimed: a send that passed the credential check, the content check
\* and conversation resolution ends with an assistant message persisted in
\* that conversation.
C4_AssistantAlwaysPersisted ==
    \A r \in Reqs :
        (SendDone(r) /\ req[r].conv_id # 0)
        => /\ req[r].assistant_msg # None
           /\ \E i \in DOMAIN messages :
                 /\ messages[i].id = req[r].assistant_msg[1].id
                 /\ messages[i].role = "assistant"
                 /\ messages[i].conversation_id = req[r].conv_id

AuthError == "Access token is required for RLS"
ContentError == "Message content is required"
NotFoundError == "Conversation not found or access denied"

FailedCheck(r) ==
    /\ SendDone(r)
    /\ FailedAs(r, AuthError) \/ FailedAs(r, ContentError) \/ FailedAs(r, NotFoundError)

\* C5 (state part): the credential is checked first, the content second, the
\* conversation third, and a send that fails one of the three has issued no
\* storage write.
C5_ChecksInOrder ==
    \A r \in Reqs :
        SendDone(r)
        => /\ req[r].access_token = "" => FailedAs(r, AuthError) /\ req[r].ops = <<>>
           /\ (req[r].access_token # "" /\ strip(req[r].content_in) = "")
                => FailedAs(r, ContentError) /\ req[r].ops = <<>>
           /\ FailedAs(r, NotFoundError)
                => /\ req[r].ops = <<[op |-> "conversations.select", res |-> "ok"]>>
                   /\ NotOwned(r)
           /\ (/\ req[r].access_token # "" /\ strip(req[r].content_in) # ""
               /\ NotOwned(r) /\ ~StorageFault(r))
                => FailedAs(r, NotFoundError)
           /\ FailedCheck(r) => NoWrites(r) /\ req[r].user_msg = None

\* C5 (step part): every step of a send up to and including a failed check
\* leaves both tables as they were.
C5_CheckStepsWriteNothing ==
    \A r \in Reqs :
        (req[r] # req'[r] /\ req'[r].mode \in SendModes
         /\ (req'[r].pc = "resolve" \/ FailedCheck(r)'))
        => UNCHANGED storeVars

\* C5: a send that fails because the credential is empty, the content is
\* empty after trimming, or the conversation is absent or owned by another
\* user performs no storage write (no conversation created, no message
\* persisted, no title changed), and the checks are made in that order.
C5_FailedChecksWriteNothing == []C5_ChecksInOrder /\ [][C5_CheckStepsWriteNothing]_vars

\* C5 witness: a send by a caller who does not own the conversation it names
\* has failed as not found, with that conversation and its messages stored.
C5_Witness ==
    \E r \in Reqs :
        /\ SendDone(r) /\ FailedAs(r, NotFoundError)
        /\ req[r].conversation_id[1] \in DOMAIN conversations
        /\ MessagesOf(req[r].conversation_id[1]) # <<>>

\* C6: get_messages for a conversation that does not exist or belongs to
\* another user answers not found (no conversation, no messages, 404 from
\* the route) whenever it answers; it never issues the message read and
\* never returns a message.
C6_ForeignConversationNotFound ==
    \A r \in Reqs :
        (req[r].mode = "get_messages" /\ NotOwned(r))
        => /\ req[r].conv = None
           /\ req[r].listed = <<>>
           /\ \A i \in DOMAIN req[r].ops : req[r].ops[i].op # "messages.select"
           /\ (req[r].pc = "done" /\ req[r].raised = "none" /\ req[r].status \notin {400, 401})
                => req[r].status = 404

\* C6 witness: get_messages for another user's conversation, which holds
\* messages, has answered 404.
C6_Witness ==
    \E r \in Reqs :
        /\ req[r].mode = "get_messages" /\ req[r].pc = "done" /\ req[r].status = 404
        /\ req[r].conversation_id[1] \in DOMAIN conversations
        /\ conversations[req[r].conversation_id[1]].user_id # req[r].user_id
        /\ MessagesOf(req[r].conversation_id[1]) # <<>>

\* C8: when the reasoning loop is stopped by its iteration cap or time limit,
\* invoke_agent returns the stop sentence instead of raising, and the
\* blocking send (storage answering every call) ends with status 200 and
\* exactly one assistant message of the turn, whose content is that sentence.
C8_StoppedLoopFallback ==
    \A r \in Reqs :
        (req[r].mode = "blocking" /\ req[r].engine = "stopped")
        => /\ req[r].pc \in {"persist_asst", "title", "done"}
           /\ req[r].assistant_content = AgentStopped
           /\ OkOps(r, "messages.insert.assistant") <= 1
           /\ (req[r].pc = "done" /\ ~StorageFault(r))
                => /\ req[r].raised = "none" /\ req[r].status = 200
                   /\ OkOps(r, "messages.insert.assistant") = 1
                   /\ req[r].response = req[r].assistant_msg
                   /\ Stored(req[r].assistant_msg[1])
                   /\ req[r].assistant_msg[1].role = "assistant"
                   /\ req[r].assistant_msg[1].content = AgentStopped
                   /\ Len(SelectSeq(MessagesOf(req[r].conv_id),
                                    LAMBDA m : m.role = "assistant"
                                               /\ m.id > req[r].user_msg[1].id)) = 1

\* C8 witness: a blocking send whose loop was stopped has answered 200.
C8_Witness ==
    \E r \in Reqs :
        /\ req[r].mode = "blocking" /\ req[r].engine = "stopped"
        /\ req[r].pc = "done" /\ req[r].status = 200

\* C12 as claimed: a send-message call surfaces only the authorization,
\* validation and not-found failures; under every other fault of the turn
\* (storage or engine) it still returns a response.
C12_OnlyCheckFailuresSurface ==
    \A r \in Reqs :
        (SendDone(r) /\ req[r].mode = "blocking")
        => \/ FailedCheck(r)
           \/ req[r].raised = "none" /\ req[r].status = 200 /\ req[r].response # None

Mentions(text, words) == \E w \in words : Contains(lower(text), w)

EngineRaised(r) ==
    /\ req[r].mode = "blocking" /\ req[r].engine = "raise"

FixedSentences == {TookTooLong, TemporarilyBusy, SomethingWentWrong}

\* C13 as claimed: when the engine call raises in blocking mode, invoke_agent
\* returns the busy sentence when the error text mentions rate, quota or 429,
\* the took-too-long sentence when it mentions timeout or deadline, the
\* generic sentence otherwise, and never the error's own text.
C13_FailureClassification ==
    \A r \in Reqs :
        EngineRaised(r)
        => /\ req[r].assistant_content \in FixedSentences
           /\ Mentions(req[r].engine_text, {"rate", "quota", "429"})
                => req[r].assistant_content = TemporarilyBusy
           /\ Mentions(req[r].engine_text, {"timeout", "deadline"})
                => req[r].assistant_content = TookTooLong
           /\ ~Mentions(req[r].engine_text, {"rate", "quota", "429", "timeout", "deadline"})
                => req[r].assistant_content = SomethingWentWrong
           /\ ~Contains(req[r].assistant_content, req[r].engine_text)

\* C13 amended: when the engine call raises in blocking mode, invoke_agent
\* does not raise and returns exactly one of the three fixed sentences: the
\* took-too-long sentence when the error text mentions timeout or deadline;
\* otherwise the busy sentence when it mentions rate, quota or 429; otherwise
\* the generic sentence; never the error's own text.
C13_FailureClassificationTimeoutFirst ==
    \A r \in Reqs :
        EngineRaised(r)
        => /\ req[r].pc \in {"persist_asst", "title", "done"}
           /\ req[r].assistant_content \in FixedSentences
           /\ req[r].assistant_content =
                (IF Mentions(req[r].engine_text, {"timeout", "deadline"}) THEN TookTooLong
                 ELSE IF Mentions(req[r].engine_text, {"rate", "quota", "429"})
                      THEN TemporarilyBusy
                 ELSE SomethingWentWrong)
           /\ ~Contains(req[r].assistant_content, req[r].engine_text)

\* C13 witness: an engine error that mentions both a timeout and a quota was
\* answered with the took-too-long sentence.
C13_Witness ==
    \E r \in Reqs :
        /\ EngineRaised(r)
        /\ Mentions(req[r].engine_text, {"timeout"}) /\ Mentions(req[r].engine_text, {"429"})
        /\ req[r].assistant_content = TookTooLong

\* C14 as claimed: the assistant message a successful send (blocking or
\* streaming) persists and returns has non-empty content, whatever text the
\* engine returns.
C14_AssistantContentNonEmpty ==
    \A r \in Reqs :
        (SendDone(r) /\ req[r].raised = "none" /\ req[r].assistant_msg # None)
        => /\ req[r].assistant_msg[1].content # ""
           /\ \A i \in DOMAIN messages :
                messages[i].id = req[r].assistant_msg[1].id => messages[i].content # ""

ListModes == {"list_conversations", "get_messages"}

\* the largest limit each list route accepts
MaxLimitOf(mode) == IF mode = "list_conversations" THEN 100 ELSE 200

\* C15: list conversations rejects limit < 1 and limit > 100, list messages
\* rejects limit < 1 and limit > 200, both reject offset < 0, each with 400
\* and before any storage read; every other limit and offset passes the
\* validation.
C15_PaginationBounds ==
    \A r \in Reqs :
        req[r].mode \in ListModes
        => IF \/ req[r].limit < 1 \/ req[r].limit > MaxLimitOf(req[r].mode)
              \/ req[r].offset < 0
           THEN req[r].pc = "done" /\ req[r].status = 400 /\ req[r].ops = <<>>
           ELSE req[r].status # 400

\* C15 witness: list conversations, called with a credential, has rejected
\* limit 101 with offset 0.
C15_Witness ==
    \E r \in Reqs :
        /\ req[r].mode = "list_conversations" /\ req[r].limit = 101 /\ req[r].offset = 0
        /\ req[r].status = 400 /\ req[r].access_token # ""

\* the send has loaded its history window
HistoryLoaded(r) ==
    req[r].mode \in SendModes /\ OkOps(r, "messages.select") = 1

\* C16 as claimed: in every turn the history window, loaded after the inbound
\* user message is persisted, contains that inbound message as its newest
\* entry, however long the conversation is.
C16_WindowHoldsInboundMessage ==
    \A r \in Reqs :
        HistoryLoaded(r)
        => /\ req[r].history # <<>>
           /\ req[r].history[Len(req[r].history)] = [role |-> "user", content |-> req[r].content]

\* C17: the history window of a turn has at most 20 entries, follows the
\* conversation's messages oldest first, holds only messages of the turn's
\* own conversation, which the caller owns, and each entry has a role and a
\* content and nothing else.
C17_WindowShape ==
    \A r \in Reqs :
        HistoryLoaded(r)
        => LET own == MessagesOf(req[r].conv_id)
               window == req[r].history
           IN /\ Len(window) <= 20
              /\ Len(window) <= Len(own)
              /\ conversations[req[r].conv_id].user_id = req[r].user_id
              /\ \A i \in DOMAIN window :
                    /\ DOMAIN window[i] = {"role", "content"}
                    /\ window[i].role = own[i].role
                    /\ window[i].content = own[i].content

\* C17 witness: a turn in a conversation that held an earlier exchange of its
\* caller and, in a longer one, more messages than the window takes.
C17_Witness ==
    \E r \in Reqs :
        /\ HistoryLoaded(r)
        /\ Len(req[r].history) = 20
        /\ Len(MessagesOf(req[r].conv_id)) > 20

\* C20 as claimed: every done event carries a message_id and a message that
\* identify an assistant message stored in the conversation the event names,
\* also when the insert of the assistant message returned no row.
C20_DoneNamesStoredMessage ==
    \A r \in Reqs :
        DoneFrame(r)
        => LET done == req[r].frames[Len(req[r].frames)]
           IN /\ done.message_id # None
              /\ done.message # None
              /\ done.message[1].id = done.message_id[1]
              /\ \E i \in DOMAIN messages :
                    /\ messages[i].id = done.message_id[1]
                    /\ messages[i].role = "assistant"
                    /\ messages[i].conversation_id = done.conversation_id

\* the names in a tools_used list
Names(tools_used) == {tools_used[i] : i \in DOMAIN tools_used}

\* C21 as claimed: in every turn, blocking or streaming, whose reasoning loop
\* called one or more tools, the metadata of the persisted assistant message
\* holds tools_used with the names of the tools called.
C21_ToolsUsedInMetadata ==
    \A r \in Reqs :
        (/\ req[r].mode \in SendModes
         /\ req[r].engine_tools # {}
         /\ req[r].assistant_msg # None
         /\ Stored(req[r].assistant_msg[1]))
        => /\ req[r].assistant_msg[1].metadata # None
           /\ Names(req[r].assistant_msg[1].metadata[1]) = req[r].engine_tools

\* the distinct non-empty names of a sequence, in order of first occurrence
RECURSIVE FirstOccurrences(_)
FirstOccurrences(names) ==
    IF names = <<>> THEN <<>>
    ELSE LET init == SubSeq(names, 1, Len(names) - 1)
             last == names[Len(names)]
         IN IF last = "" \/ \E i \in DOMAIN init : init[i] = last
            THEN FirstOccurrences(init)
            ELSE Append(FirstOccurrences(init), last)

ToolStartFrames(frames) == SelectSeq(frames, LAMBDA f : f.type = "tool_start")

\* C22: in a streaming turn the tools_used of the stored assistant message is
\* the list of distinct non-empty tool names of the runtime's tool_start
\* events in order of first occurrence, the metadata is absent when no tool
\* started, and the caller gets one tool_start event for every tool_start
\* event of the runtime, repeated names included.
C22_StreamToolsUsed ==
    \A r \in Reqs :
        req[r].mode = "stream"
        => LET starts == req[r].tool_starts
               emitted == ToolStartFrames(req[r].frames)
           IN /\ req[r].tools_used = FirstOccurrences(starts)
              /\ Len(emitted) = Len(starts)
              /\ \A i \in DOMAIN starts : emitted[i].tool = starts[i]
              /\ (req[r].assistant_msg # None /\ req[r].pc \in {"title", "done"})
                    => /\ Stored(req[r].assistant_msg[1])
                       /\ req[r].assistant_msg[1].metadata =
                             (IF FirstOccurrences(starts) = <<>> THEN None
                              ELSE Some(FirstOccurrences(starts)))

\* C22 witness: a stream in which the same tool started twice has stored its
\* assistant message.
C22_Witness ==
    \E r \in Reqs :
        /\ req[r].mode = "stream" /\ req[r].pc = "done"
        /\ req[r].assistant_msg # None
        /\ Len(req[r].tool_starts) = 2
        /\ req[r].tool_starts[1] = req[r].tool_starts[2]

\* C23: when the text gathered in a streaming turn is empty or only
\* whitespace once the stream is exhausted, the stored assistant message has
\* the content '(No response)'; otherwise its content is the gathered text
\* without leading and trailing whitespace.
C23_StreamPlaceholder ==
    \A r \in Reqs :
        (/\ req[r].mode = "stream"
         /\ req[r].pc \in {"title", "done"}
         /\ req[r].assistant_msg # None)
        => LET text == join(req[r].parts)
               row == req[r].assistant_msg[1]
           IN /\ Stored(row)
              /\ row.role = "assistant"
              /\ strip(text) = "" => row.content = NoResponse
              /\ strip(text) # "" => row.content = strip(text)

\* C23 witness: a stream that forwarded only whitespace has stored the
\* placeholder.
C23_Witness ==
    \E r \in Reqs :
        /\ req[r].mode = "stream" /\ req[r].pc = "done"
        /\ req[r].assistant_msg # None
        /\ join(req[r].parts) # "" /\ strip(join(req[r].parts)) = ""
        /\ req[r].assistant_msg[1].content = NoResponse

\* C25: in a streaming turn that created its conversation the title is
\* written after the assistant message is persisted and before the done event
\* is emitted: the done event is emitted by the step that writes the title,
\* and whenever such a done event is observable the title update was the last
\* storage call, made after the assistant insert, and (the update having
\* answered with its row) the stored title is set.
C25_TitleBeforeDone ==
    /\ [](\A r \in Reqs :
            (DoneFrame(r) /\ req[r].conversation_created)
            => LET ops == req[r].ops
               IN /\ ops[Len(ops)].op = "conversations.update"
                  /\ ops[Len(ops) - 1].op = "messages.insert.assistant"
                  /\ ops[Len(ops)].res = "ok"
                        => conversations[req[r].conv_id].title = Some(Title(req[r].content)))
    /\ [][\A r \in Reqs :
            (~DoneFrame(r) /\ DoneFrame(r)' /\ req'[r].conversation_created)
            => /\ req[r].pc = "title"
               /\ OkOps(r, "conversations.update") = 0
               /\ conversations[req[r].conv_id].title = None]_vars

\* C25 witness: the done event of a new conversation with a stored assistant
\* message and the title set.
C25_Witness ==
    \E r \in Reqs :
        /\ DoneFrame(r) /\ req[r].conversation_created
        /\ DoneMessage(r) # None
        /\ conversations[req[r].conv_id].title = Some(Title(req[r].content))

ReadOps == {"conversations.select", "messages.select"}

\* the request ended because a storage call raised a transient connection
\* fault
EndedInTransientFault(r) ==
    /\ req[r].pc = "done" /\ req[r].raised = "Exception"
    /\ req[r].ops # <<>>
    /\ req[r].ops[Len(req[r].ops)].res = "raise"
    /\ \E e \in TransientFaults : req[r].detail = e.message

\* C26 as claimed: every storage read of the orchestrator that fails with a
\* transient connection fault is tried a second time before the fault is
\* escalated: in the list routes and in send_message and send_message_stream
\* alike.
C26_EveryReadRetriedOnce ==
    \A r \in Reqs :
        (EndedInTransientFault(r) /\ req[r].ops[Len(req[r].ops)].op \in ReadOps)
        => LET ops == req[r].ops
           IN /\ Len(ops) >= 2
              /\ ops[Len(ops) - 1].op = ops[Len(ops)].op
              /\ ops[Len(ops) - 1].res = "raise"

\* how often the turn called the storage operation op
Attempts(r, op) == Cardinality({i \in DOMAIN req[r].ops : req[r].ops[i].op = op})

\* C28: within one turn every storage write (create conversation, create user
\* message, create assistant message, update title) is attempted at most
\* once, also when it fails with a transient connection fault, and no turn
\* stores the same message twice.
C28_WritesAttemptedOnce ==
    \A r \in Reqs :
        req[r].mode \in SendModes
        => /\ \A op \in WriteOps : Attempts(r, op) <= 1
           /\ (EndedInTransientFault(r) /\ req[r].ops[Len(req[r].ops)].op \in WriteOps)
                 => Attempts(r, req[r].ops[Len(req[r].ops)].op) = 1
           /\ req[r].user_msg # None
                 => Len(SelectSeq(messages, LAMBDA m : m.id >= req[r].user_msg[1].id)) <= 2
           /\ \A i, j \in DOMAIN messages : messages[i].id = messages[j].id => i = j

\* C28 witness: a turn that ended because the insert of the assistant message
\* met a dropped connection, after the user message was stored.
C28_Witness ==
    \E r \in Reqs :
        /\ req[r].mode \in SendModes
        /\ EndedInTransientFault(r)
        /\ req[r].ops[Len(req[r].ops)].op = "messages.insert.assistant"
        /\ Attempts(r, "messages.insert.assistant") = 1
        /\ req[r].user_msg # None /\ Stored(req[r].user_msg[1])

\* the sentences the stated classification allows for an error text
ClassifiedSentences(text) ==
    (IF Mentions(text, {"rate", "quota", "429"}) THEN {TemporarilyBusy} ELSE {})
    \cup (IF Mentions(text, {"timeout", "deadline"}) THEN {TookTooLong} ELSE {})
    \cup (IF ~Mentions(text, {"rate", "quota", "429", "timeout", "deadline"})
          THEN {SomethingWentWrong} ELSE {})

\* C29 as claimed: in streaming mode an engine failure does not raise out of
\* the runtime's stream but ends it with one token, whose text is classified
\* as in blocking mode: the busy sentence for a rate or quota error, the
\* took-too-long sentence for a timeout or deadline error, the generic
\* sentence for anything else.
C29_StreamFailureClassification ==
    \A r \in Reqs :
        (req[r].mode = "stream" /\ req[r].engine = "raise")
        => LET chunks == ChunkFrames(req[r].frames)
           IN /\ chunks # <<>>
              /\ chunks[Len(chunks)].content \in ClassifiedSentences(req[r].engine_text)

\* C30 as claimed: the runtime's stream is never empty: when the engine's
\* stream ends without a token, the runtime yields the blocking answer as a
\* single token.
C30_StreamNeverEmpty ==
    \A r \in Reqs :
        (req[r].mode = "stream" /\ req[r].engine = "return")
        => req[r].parts # <<>>

\* the chunk and tool_start frames of a request, in the order sent
ForwardedFrames(r) ==
    SelectSeq(req[r].frames, LAMBDA f : f.type \in {"chunk", "tool_start"})

\* the frames the runtime's events call for: one per tool_start and one per
\* token with text, in the runtime's order
FramesOfRuntime(r) ==
    LET events == SelectSeq(req[r].runtime_events,
                            LAMBDA ev : ev.type = "tool_start" \/ ev.content # "")
    IN [i \in DOMAIN events |->
            IF events[i].type = "token" THEN Frame("chunk", events[i].content, "")
            ELSE Frame("tool_start", "", events[i].tool)]

\* C32: within one streaming turn the chunk and tool_start frames are the
\* runtime's token and tool_start events in the runtime's order, one frame
\* per event and each chunk with its token's content; only the fallback
\* sentence of a stream that raised follows them.
C32_FramesFollowRuntimeOrder ==
    \A r \in Reqs :
        req[r].mode = "stream"
            => ForwardedFrames(r) =
                   FramesOfRuntime(r) \o
                       (IF req[r].engine = "stream_raise"
                        THEN <<Frame("chunk", SomethingWentWrong, "")>> ELSE <<>>)

C32_Witness ==
    \E r \in Reqs :
        /\ req[r].mode = "stream"
        /\ req[r].pc = "done"
        /\ Len(req[r].runtime_events) = MaxEvents
        /\ req[r].runtime_events[1].type = "tool_start"
        /\ req[r].runtime_events[MaxEvents].type = "token"
        /\ ForwardedFrames(r)[1].type = "tool_start"
        /\ ForwardedFrames(r)[MaxEvents].type = "chunk"

(***************************************************************************)
(* Properties of the read retry.                                           *)
(***************************************************************************)
\* C7: a wrapped read whose first attempt raises a transient connection fault
\* and whose second attempt succeeds returns the value the fault-free read
\* returns; a transient connection fault on both attempts reaches the caller
\* as the second fault.
C7_RetryOnceThenPropagate ==
    retry.pc = "returned"
    => LET faults == retry.faults
           result == retry.result[1]
       IN /\ (Transient(faults[1]) /\ faults[2] = None)
               => /\ result.raised = None
                  /\ result.value = Some(retry.value)
                  /\ result.calls = 2
          /\ (Transient(faults[1]) /\ Transient(faults[2]))
               => /\ result.raised = faults[2]
                  /\ result.value = None
                  /\ result.calls = 2

\* C7 witness: a read returned its rows on the second attempt, and would have
\* raised on a third.
C7_Witness ==
    /\ retry.pc = "returned"
    /\ Transient(retry.faults[1]) /\ retry.faults[2] = None /\ retry.faults[3] # None
    /\ retry.result[1].value = Some(<<"row">>)

\* C27: _with_retry_on_disconnect calls the wrapped operation at most twice;
\* a fault that is not a transient connection fault reaches the caller after
\* the first call, with no retry; a second call happens only after a
\* transient connection fault on the first.
C27_AtMostTwoCalls ==
    retry.pc = "returned"
    => LET faults == retry.faults
           result == retry.result[1]
       IN /\ result.calls \in {1, 2}
          /\ faults[1] = None => (result.calls = 1 /\ result.value = Some(retry.value))
          /\ (faults[1] # None /\ ~Transient(faults[1]))
               => /\ result.calls = 1
                  /\ result.raised = faults[1]
          /\ result.calls = 2 => Transient(faults[1])
          /\ (result.calls = 2 /\ faults[2] # None) => result.raised = faults[2]

\* C27 witness: a fault that is no connection fault reached the caller after
\* one call, although a second call would have returned.
C27_Witness ==
    /\ retry.pc = "returned"
    /\ retry.faults[1] # None /\ ~Transient(retry.faults[1]) /\ retry.faults[2] = None
    /\ retry.result[1].calls = 1
    /\ retry.result[1].raised = retry.faults[1]

(***************************************************************************)
(* Properties of the tool registry.                                        *)
(***************************************************************************)
Bindings ==
    {b[1] : b \in {agent_executor, streaming_agent_executor} \ {None}}

InTools(name, binding) == \E i \in DOMAIN binding.tools : binding.tools[i] = name

\* C9: a binding offers the search tool only if the search credential is
\* non-empty after trimming and the trends tool only if the trends endpoint is
\* non-empty after trimming; an adapter with an empty configuration answers
\* every availability check with unavailable; a binding with no tool is the
\* direct chain, not the tool-calling loop.
C9_ToolsOnlyWhenConfigured ==
    /\ \A b \in Bindings :
          /\ InTools(TAVILY_TOOL_NAME, b) => strip(settings.tavily_api_key) # ""
          /\ InTools(MCP_TOOL_NAME, b) => strip(settings.mcp_url) # ""
          /\ b.tools = <<>> => b.kind = "chain"
          /\ b.kind = "executor" => b.tools # <<>>
    /\ \A c \in checks :
          /\ (c.adapter = TAVILY_TOOL_NAME /\ strip(settings.tavily_api_key) = "") => ~c.available
          /\ (c.adapter = MCP_TOOL_NAME /\ strip(settings.mcp_url) = "") => ~c.available

\* C9 witness: with a search credential of blanks only and a trends endpoint,
\* both bindings are built, the search adapter was asked, and the loop has
\* the trends tool alone.
C9_Witness ==
    /\ settings.tavily_api_key = " " /\ strip(settings.mcp_url) # ""
    /\ agent_executor # None /\ streaming_agent_executor # None
    /\ agent_executor[1].tools = <<MCP_TOOL_NAME>>
    /\ [adapter |-> TAVILY_TOOL_NAME, available |-> FALSE] \in checks

(***************************************************************************)
(* Properties of the search tool.                                          *)
(***************************************************************************)
\* C10 as claimed: _tavily_invoke returns a string and never raises, whatever
\* the remote call does: a timeout, an authentication failure, another
\* exception, an empty response, or a response whose results are no list,
\* whose item is no object, or whose score is null or no number.
C10_TavilyInvokeNeverRaises ==
    tavily.pc = "returned"
    => /\ tavily.result[1].raised = None
       /\ tavily.result[1].value # None

(***************************************************************************)
(* Properties of the trends tool.                                          *)
(***************************************************************************)
\* C11 as claimed: _google_trends_invoke returns a string and never raises,
\* whatever the remote call does: a failed handshake, a connection error or
\* timeout on every attempt, a status other than 200, an unparsable body, a
\* JSON-RPC error member of any shape, or a worker future that outlasts its
\* wait.
C11_TrendsInvokeNeverRaises ==
    trends.pc = "returned"
    => /\ trends.result[1].raised = None
       /\ trends.result[1].value # None

\* the tools/call POST of the returned call that was answered, if one was
AnsweredFinal ==
    IF trends.script[1].fails < MCP_MAX_RETRIES + 1
    THEN Some(trends.script[1].final) ELSE None

Answered404 ==
    /\ AnsweredFinal # None
    /\ AnsweredFinal[1].kind = "status"
    /\ AnsweredFinal[1].code = 404

\* C35: a session id in the cache for the endpoint is used as it is, with
\* no initialize POST, and stays cached; a 404 answer leaves the endpoint
\* without a cache entry, and a call that finds none makes the handshake
\* and goes on with the id the server issues.
C35_SessionReusedAndRenewed ==
    LET url == _mcp_endpoint(settings)
        before == trends.cache_before
        res == trends.result[1]
    IN (trends.pc = "returned" /\ url # "")
       => /\ Cached(before, url)
               => /\ res.handshakes = 0
                  /\ res.session_id = Some((CHOOSE e \in before : e.url = url).session_id)
                  /\ ~Answered404 => _mcp_session_cache = before
          /\ Answered404 => ~Cached(_mcp_session_cache, url)
          /\ ~Cached(before, url)
               => /\ res.handshakes = 1
                  /\ trends.script[1].handshake = "session"
                        => /\ res.session_id = Some(trends.script[1].issued)
                           /\ ~Answered404
                                 => _mcp_session_cache =
                                        {[url |-> url, session_id |-> trends.script[1].issued]}

C35_Witness ==
    /\ trends.pc = "returned"
    /\ trends.cache_before =
          {[url |-> _mcp_endpoint(settings), session_id |-> SessionIds[2]]}
    /\ trends.result[1].session_id = Some(SessionIds[2])
    /\ trends.result[1].handshakes = 0
    /\ Answered404
    /\ _mcp_session_cache = {}

\* the answers that end the call with an error result: another status than
\* 200, a body that does not parse, an exception of the POST other than the
\* three connection failures, a JSON-RPC error object
ErrorAnswer(final) ==
    \/ final.kind \in {"status", "unparsable", "exception"}
    \/ final.kind = "body" /\ final.error.kind = "object"

\* C36: a call makes at most max_retries + 1 tools/call POSTs, one more
\* only after a POST that failed on the connection or timed out, and sleeps
\* 0.5 s times the attempt number before it; an error answer ends the call
\* with an error result on the attempt it came on; when every attempt fails
\* on the connection the result is the 'unreachable' error.
C36_BoundedRetryOnConnectionFaults ==
    LET res == trends.result[1]
        script == trends.script[1]
    IN (trends.pc = "returned" /\ _mcp_endpoint(settings) # "")
       => /\ res.posts <= MCP_MAX_RETRIES + 1
          /\ res.posts <= script.fails + 1
          /\ Len(res.waits) = res.posts - 1
          /\ \A i \in DOMAIN res.waits : res.waits[i] = i
          /\ (AnsweredFinal # None /\ ErrorAnswer(AnsweredFinal[1])
                    /\ ~(script.in_loop /\ script.future_timeout))
                => /\ res.posts = script.fails + 1
                   /\ res.raised = None
                   /\ startswith(res.value[1], "Trends error: ")
          /\ (AnsweredFinal = None /\ ~(script.in_loop /\ script.future_timeout))
                => /\ res.posts = MCP_MAX_RETRIES + 1
                   /\ res.value = Some("Trends error: Google Trends service is "
                                        \o "unreachable. Please try again later.")

C36_Witness ==
    /\ trends.pc = "returned"
    /\ _mcp_endpoint(settings) # ""
    /\ trends.script[1].fails = MCP_MAX_RETRIES
    /\ trends.script[1].final.kind = "status"
    /\ trends.result[1].posts = MCP_MAX_RETRIES + 1
    /\ trends.result[1].waits = [i \in 1..MCP_MAX_RETRIES |-> i]
    /\ startswith(trends.result[1].value[1], "Trends error: ")

\* the region a country code stands for
Region(code) == IF code \in {"UK", "GB"} THEN "GB" ELSE code

\* C37: an input that is a listed code is queried as that code, a phrase
\* that names a listed code ('trends in UK') as the region of the code it
\* names, UK as GB, and an input without a two-letter alphabetic word as US.
C37_GeoFromFreeText ==
    LET raw == upper(strip(IF trends.geo_or_query = "" THEN "US" ELSE trends.geo_or_query))
        named == SubSeq(raw, Len("TRENDS IN ") + 1, Len(raw))
    IN trends.pc = "returned"
       => /\ raw \in TrendsGeoCodes => trends.result[1].geo = Region(raw)
          /\ (startswith(raw, "TRENDS IN ") /\ named \in TrendsGeoCodes)
                => trends.result[1].geo = Region(named)
          /\ FirstCode(split(replace(raw, ",", " "))) = None
                => trends.result[1].geo = "US"

(***************************************************************************)
(* Properties of the authentication middleware.                            *)
(***************************************************************************)
\* a path the list of public paths does not cover: not the root, and not a
\* listed page or anything under one
Protected(path) ==
    /\ path # "/"
    /\ \A i \in DOMAIN public_paths :
          public_paths[i] # "/" => ~startswith(path, public_paths[i])

\* the header is 'Bearer <token>' with a token that decodes to a user
BearerIdentity(authorization) ==
    IF authorization = None THEN None
    ELSE LET words == split(authorization[1])
         IN IF /\ Len(words) = 2
               /\ lower(words[1]) = "bearer"
               /\ words[2] \in DOMAIN JwtPayloads
               /\ JwtPayloads[words[2]][1].sub # None
               /\ JwtPayloads[words[2]][1].sub[1] \in Uuids
            THEN LET payload == JwtPayloads[words[2]][1]
                 IN Some([user_id |-> payload.sub[1],
                          email |-> IF payload.email = None THEN "" ELSE payload.email[1],
                          token |-> words[2]])
            ELSE None

\* C18 as claimed: on a path that is not public the middleware answers 401
\* itself when the Authorization header is missing, malformed or carries an
\* invalid token, and otherwise puts user_id, email and token into the
\* request state, so that get_current_user returns that identity.
C18_ProtectedPathsRequireBearer ==
    (request.pc = "dispatched" /\ Protected(request.path))
    => LET identity == BearerIdentity(request.authorization)
           result == request.result[1]
       IN IF identity = None
          THEN /\ ~result.call_next
               /\ result.response # None
               /\ result.response[1].status_code = 401
          ELSE /\ result.call_next
               /\ result.state = identity
               /\ request.user = Some(Ok(identity[1]))

(***************************************************************************)
(* Properties of the stream loop.                                          *)
(***************************************************************************)
\* C19: when the runtime stream raises, after any number of forwarded tokens,
\* the orchestrator drops the text gathered so far, emits one chunk with
\* 'Something went wrong while answering. Please try again.', stores exactly
\* that sentence as the assistant message and (storage answering every call)
\* still ends the stream with a done event.
C19_StreamFailureReplaced ==
    \A r \in Reqs :
        req[r].engine = "stream_raise"
        => LET chunks == ChunkFrames(req[r].frames)
           IN /\ req[r].mode = "stream"
              /\ req[r].assistant_content = SomethingWentWrong
              /\ chunks # <<>>
              /\ chunks[Len(chunks)].content = SomethingWentWrong
              /\ Cardinality({i \in DOMAIN chunks : chunks[i].content = SomethingWentWrong}) = 1
              /\ \A i \in DOMAIN req[r].frames : req[r].frames[i].type # "error"
              /\ OkOps(r, "messages.insert.assistant") = 1
                    => /\ req[r].assistant_msg # None
                       /\ Stored(req[r].assistant_msg[1])
                       /\ req[r].assistant_msg[1].role = "assistant"
                       /\ req[r].assistant_msg[1].content = SomethingWentWrong
              /\ (req[r].pc = "done" /\ ~StorageFault(r))
                    => /\ DoneFrame(r)
                       /\ req[r].closed
                       /\ DoneMessage(r) # None
                       /\ DoneMessage(r)[1].content = SomethingWentWrong
                       /\ Len(SelectSeq(MessagesOf(req[r].conv_id),
                                        LAMBDA m : m.role = "assistant"
                                                   /\ m.id > req[r].user_msg[1].id)) = 1

\* C19 witness: a stream that raised after text had been forwarded has ended
\* in a done event whose message is the failure sentence alone.
C19_Witness ==
    \E r \in Reqs :
        /\ req[r].engine = "stream_raise"
        /\ DoneFrame(r) /\ DoneMessage(r) # None
        /\ Len(ChunkFrames(req[r].frames)) > 1
        /\ strip(ChunkText(req[r].frames)) # SomethingWentWrong

(***************************************************************************)
(* Properties of the title.                                                *)
(***************************************************************************)
\* C24: over every sequence and interleaving of send turns the title of a
\* conversation is written at most once, and only by the turn that created
\* the conversation; a send that names an existing conversation never changes
\* its title, even while the stored title is empty.
C24_TitleWrittenOnceByCreator ==
    /\ [](\A i, j \in DOMAIN title_log : title_log[i] = title_log[j] => i = j)
    /\ [][\A c \in DOMAIN conversations :
            conversations'[c].title # conversations[c].title
            => /\ conversations[c].title = None
               /\ \A i \in DOMAIN title_log : title_log[i] # c
               /\ \E t \in Slots :
                     /\ turns[t].pc = "title" /\ turns'[t].pc = "done"
                     /\ turns[t].conv_id = c
                     /\ turns[t].conversation_id = None
                     /\ turns[t].conversation_created]_vars

\* C24 witness: a turn that named an existing conversation whose title is
\* still empty has ended and the title is still empty, while another
\* conversation got its title from the turn that created it.
C24_Witness ==
    \E t \in Slots :
        /\ turns[t].pc = "done"
        /\ turns[t].conversation_id # None
        /\ turns[t].conv_id \in DOMAIN conversations
        /\ conversations[turns[t].conv_id].title = None
        /\ title_log # <<>>

(***************************************************************************)
(* Properties of the streaming runtime.                                    *)
(***************************************************************************)
\* what the runtime is to yield for one engine event of the executor: a
\* tool_start for a tool that begins, a token for text of a step that calls
\* no tool, the failure sentence for an exception, nothing otherwise
FinalAnswerEvents(e) ==
    IF e.kind = "on_tool_start" /\ e.name # "" THEN <<ToolStartEvent(e.name)>>
    ELSE IF e.kind = "on_chat_model_stream" /\ ~e.tool_step /\ e.text # ""
    THEN <<TokenEvent(e.text)>>
    ELSE IF e.kind = "raise" THEN <<TokenEvent(StreamFailureSentence(e.text))>>
    ELSE <<>>

RECURSIVE FinalAnswerStream(_)
FinalAnswerStream(events) ==
    IF events = <<>> THEN <<>>
    ELSE FinalAnswerEvents(Head(events)) \o FinalAnswerStream(Tail(events))

\* C31: with tools configured, stream_agent_async yields a tool_start for
\* each tool invocation that begins under a non-empty name and a token for
\* each text of the final answer; text of a model step that issues a tool
\* call, with or without tool-call chunks, is not yielded, and no other
\* engine event gives output.
C31_OnlyFinalAnswerTokens ==
    (runtime.binding # None /\ runtime.binding[1].kind = "executor")
        => runtime.yielded = FinalAnswerStream(runtime.events)

(***************************************************************************)
(* Properties of the lazy singletons.                                      *)
(***************************************************************************)
\* the callers that ran _create_agent for a mode
Builders(mode) == {t \in Threads : mode \in threads[t].built}

\* C33: for each mode the binding is constructed at most once per process,
\* and two callers whose first calls run side by side receive the same
\* object.
C33_BindingBuiltOnce ==
    \A mode \in {"blocking", "stream"} :
        /\ Cardinality(Builders(mode)) <= 1
        /\ \A t, u \in Threads :
              (threads[t].pc = "returned" /\ threads[u].pc = "returned"
                  /\ threads[t].mode = mode /\ threads[u].mode = mode)
                  => threads[t].agent = threads[u].agent

(***************************************************************************)
(* Properties of the session cache under concurrent calls.                 *)
(***************************************************************************)
\* the calls whose initialize was answered with a session id
Initialized == {t \in Tasks : tasks[t].new_id # None}

\* C34: two tool calls for one endpoint that start on an empty cache make
\* the initialize handshake once between them and go on with the same
\* session id, and every read and write of the session cache is made by a
\* call that holds the session lock.
C34_HandshakeOncePerEndpoint ==
    /\ Cardinality(Initialized) <= 1
    /\ \A t, u \in Tasks :
          (tasks[t].session_id # None /\ tasks[u].session_id # None)
              => tasks[t].session_id = tasks[u].session_id
    /\ \A t \in Tasks : ~tasks[t].unlocked

(***************************************************************************)
(* Properties of sends side by side.                                       *)
(***************************************************************************)
\* row id of the table holds this role and content for conversation 1
Holds(id, role, content) ==
    /\ id \in DOMAIN messages
    /\ messages[id].id = id
    /\ messages[id].conversation_id = 1
    /\ messages[id].role = role
    /\ messages[id].content = content

\* C38: in every turn, however the turns interleave, the user message is
\* stored before the engine is called, the history the engine gets was
\* read after that insert, the assistant message is stored only once the
\* engine has answered and holds that answer, and the turn's user message
\* comes before its assistant message in storage.
C38_TurnStepsInOrder ==
    \A t \in Slots :
        /\ sends[t].history # None
              => /\ sends[t].user_msg # None
                 /\ sends[t].user_msg[1] <= DEFAULT_AGENT_HISTORY_LIMIT
                       => /\ sends[t].user_msg[1] \in DOMAIN sends[t].history[1]
                          /\ sends[t].history[1][sends[t].user_msg[1]] =
                                 [role |-> "user", content |-> sends[t].content]
        /\ sends[t].reply # None
              => /\ sends[t].history # None
                 /\ Holds(sends[t].user_msg[1], "user", sends[t].content)
        /\ sends[t].assistant_msg # None
              => /\ sends[t].reply # None
                 /\ Holds(sends[t].assistant_msg[1], "assistant", sends[t].reply[1])
                 /\ sends[t].user_msg[1] < sends[t].assistant_msg[1]

C38_Witness ==
    /\ \A t \in Slots : sends[t].pc = "done" /\ sends[t].assistant_msg # None
    /\ sends[1].user_msg[1] < sends[2].user_msg[1]
    /\ sends[2].user_msg[1] < sends[1].assistant_msg[1]
    /\ sends[1].assistant_msg[1] < sends[2].assistant_msg[1]

\* the ids of the rows the two turns stored
StoredIds ==
    UNION { (IF sends[t].user_msg # None THEN {sends[t].user_msg[1]} ELSE {})
                \cup (IF sends[t].assistant_msg # None
                      THEN {sends[t].assistant_msg[1]} ELSE {}) : t \in Slots }

\* C39: two sends to one conversation that meet no storage fault end, in
\* every interleaving, with four messages more than before: for each turn
\* one user message with its text and one assistant message with its own
\* reply, whatever the order of the four, and the earlier rows as they were.
C39_FourMessagesWhateverTheOrder ==
    (\A t \in Slots : sends[t].pc = "done" /\ ~sends[t].faulted)
        => /\ Len(messages) >= 4
           /\ StoredIds = (Len(messages) - 3)..Len(messages)
           /\ \E seed \in SendSeeds :
                 SubSeq(messages, 1, Len(messages) - 4) = seed.messages
           /\ \A t \in Slots :
                 /\ Holds(sends[t].user_msg[1], "user", sends[t].content)
                 /\ Holds(sends[t].assistant_msg[1], "assistant", sends[t].reply[1])

\* both turns are through without a fault, the second turn stored its user
\* message before the first turn read its history, and had no reply then
C39_Witness ==
    /\ \A t \in Slots : sends[t].pc = "done" /\ ~sends[t].faulted
    /\ sends[1].reply # sends[2].reply
    /\ sends[2].user_msg[1] \in DOMAIN sends[1].history[1]
    /\ sends[2].assistant_msg[1] > Len(sends[1].history[1])
    /\ sends[1].assistant_msg[1] < sends[2].assistant_msg[1]

(***************************************************************************)
(* Properties of a streaming turn whose consumer goes away.                *)
(***************************************************************************)
\* the consumer of this request's stream has stopped iterating
Cancelled(r) == req[r].raised \in StopSignals

\* C40: once the consumer of send_message_stream has stopped iterating
\* before the runtime's stream was exhausted, no further event is forwarded
\* and nothing after the loop runs: no assistant message is stored, no
\* title is set, no done event is sent; the conversation ends with the
\* turn's user message.
C40_NothingAfterConsumerStops ==
    /\ [](\A r \in Reqs :
            Cancelled(r)
                => /\ ForwardedFrames(r) = FramesOfRuntime(r)
                   /\ \A i \in DOMAIN req[r].frames : ~Terminal(req[r].frames[i])
                   /\ req[r].assistant_msg = None
                   /\ \A i \in DOMAIN req[r].ops :
                         req[r].ops[i].op \notin {"messages.insert.assistant",
                                                  "conversations.update"}
                   /\ req[r].conversation_created
                         => conversations[req[r].conv_id].title = None
                   /\ LET rows == MessagesOf(req[r].conv_id)
                      IN /\ rows # <<>>
                         /\ rows[Len(rows)] = req[r].user_msg[1]
                         /\ rows[Len(rows)].role = "user")
    /\ [][\A r \in Reqs :
            Cancelled(r) => UNCHANGED <<req[r], messages, conversations>>]_vars

C40_Witness ==
    \E r \in Reqs :
        /\ Cancelled(r)
        /\ req[r].conversation_created
        /\ Len(ForwardedFrames(r)) = MaxEvents
        /\ req[r].parts # <<>>
        /\ Len(MessagesOf(req[r].conv_id)) = 1

====
